---- MODULE Spec2Model ----
(***************************************************************************)
(* Payment reconciliation of the Platega integration                       *)
(* (bot/services/platega_service.py): invoice creation, the webhook route  *)
(* and its two event processors, over a Ledger of PaymentRecords and the   *)
(* users' subscription entitlements; the chat layer's payment handlers     *)
(* for YooKassa, FreeKassa, Platega and Telegram Stars                     *)
(* (bot/handlers/user/subscription/payments.py); ProfileSyncMiddleware     *)
(* (bot/middlewares/profile_sync.py) and the safe Telegram helpers         *)
(* (bot/utils/callback_helpers.py).                                        *)
(*                                                                         *)
(* Python strings are sequences of one-character strings, so that strip(), *)
(* upper(), lower(), isdigit() and int() are computed, not assumed.        *)
(* Python values that reach the code from JSON or from HTTP headers are    *)
(* records [t, v, n]: t is the Python type, v the text of a str, n the     *)
(* number of an int.                                                       *)
(***************************************************************************)
EXTENDS Integers, Sequences, FiniteSets, TLC

(***************************************************************************)
(* Bounds of the model.                                                    *)
(***************************************************************************)
MaxInvoices == 1
MaxRequests == 2
MaxUsers == 2
MaxMonths == 2
\* the same, for the behaviours of SpecLedger: more invoices, fewer requests
MaxLedgerInvoices == 2
MaxLedgerRequests == 1
\* the raw statuses SpecNormalize draws: integers up to MaxRawInt, strings of
\* up to MaxRawLen characters
MaxRawInt == 11
MaxRawLen == 3
\* the chat layer's invoice-creation flows SpecChat runs
MaxFlows == 2
\* the same system as Spec with events that carry an amount (SpecAmount)
MaxAmountInvoices == 1
MaxAmountRequests == 1
\* the webhook requests of SpecLive, which may be cancelled
MaxLiveRequests == 2
\* the callbacks of SpecPlategaChat
MaxPlategaCallbacks == 1
\* the updates of SpecHandlers, and the longest invoice payload they carry
MaxUpdates == 1
MaxPayloadLen == 4

Larger(a, b) == IF a > b THEN a ELSE b
\* the slots of create_invoice calls (and of their records) and of webhook
\* requests; a specification uses the first ones, up to its bound
Calls ==
    1..Larger(Larger(Larger(MaxInvoices, MaxPlategaCallbacks),
                     Larger(MaxLedgerInvoices, MaxUpdates)),
              Larger(MaxFlows, MaxAmountInvoices))
Reqs ==
    1..Larger(Larger(MaxRequests, MaxLedgerRequests),
              Larger(MaxAmountRequests, MaxLiveRequests))
Users == 1..MaxUsers
MonthsChoice == 1..MaxMonths

(***************************************************************************)
(* Characters and strings.                                                 *)
(***************************************************************************)
Lowers == <<"a","b","c","d","e","f","g","h","i","j","k","l","m",
            "n","o","p","q","r","s","t","u","v","w","x","y","z">>
Uppers == <<"A","B","C","D","E","F","G","H","I","J","K","L","M",
            "N","O","P","Q","R","S","T","U","V","W","X","Y","Z">>
DecimalChars == <<"0","1","2","3","4","5","6","7","8","9">>
\* "sup2" stands for U+00B2 (superscript two): str.isdigit() accepts it,
\* int() does not.
OtherDigitChars == {"sup2"}
Whitespace == {" ", "\t", "\n"}

IndexIn(seq, c) == CHOOSE i \in 1..Len(seq) : seq[i] = c
InSeq(seq, c) == \E i \in 1..Len(seq) : seq[i] = c

UpperChar(c) == IF InSeq(Lowers, c) THEN Uppers[IndexIn(Lowers, c)] ELSE c
LowerChar(c) == IF InSeq(Uppers, c) THEN Lowers[IndexIn(Uppers, c)] ELSE c
Upper(s) == [i \in 1..Len(s) |-> UpperChar(s[i])]
Lower(s) == [i \in 1..Len(s) |-> LowerChar(s[i])]

RECURSIVE LStrip(_)
LStrip(s) == IF s # <<>> /\ Head(s) \in Whitespace THEN LStrip(Tail(s)) ELSE s
RECURSIVE RStrip(_)
RStrip(s) ==
    IF s # <<>> /\ s[Len(s)] \in Whitespace
    THEN RStrip(SubSeq(s, 1, Len(s) - 1))
    ELSE s
Strip(s) == RStrip(LStrip(s))

\* str.isdigit(): non-empty and every character is a digit character.
IsDigit(s) ==
    /\ s # <<>>
    /\ \A i \in 1..Len(s) : InSeq(DecimalChars, s[i]) \/ s[i] \in OtherDigitChars
\* int(s) raises ValueError unless every character is a decimal digit.
IntRaises(s) == \E i \in 1..Len(s) : ~InSeq(DecimalChars, s[i])
RECURSIVE StrToInt(_)
StrToInt(s) ==
    IF s = <<>> THEN 0
    ELSE 10 * StrToInt(SubSeq(s, 1, Len(s) - 1))
         + (IndexIn(DecimalChars, s[Len(s)]) - 1)
\* float(s) accepts surrounding whitespace, decimal digits and one point
\* (signs, exponents, "inf" and "nan" do not occur in the amounts drawn
\* here) and raises ValueError otherwise.
FloatRaises(s) ==
    LET t == Strip(s)
    IN \/ \A i \in 1..Len(t) : ~InSeq(DecimalChars, t[i])
       \/ \E i \in 1..Len(t) : ~InSeq(DecimalChars, t[i]) /\ t[i] # "."
       \/ \E i, j \in 1..Len(t) : i # j /\ t[i] = "." /\ t[j] = "."
\* int(s) of a text: surrounding whitespace is stripped; the empty text and
\* any character that is no decimal digit raise ValueError (signs and
\* underscores do not occur in the texts drawn here).
IntParses(s) == Strip(s) # <<>> /\ ~IntRaises(Strip(s))
\* s.split(sep, 1)
SplitOnce(s, sep) ==
    IF InSeq(s, sep)
    THEN LET i == CHOOSE k \in 1..Len(s) :
                      s[k] = sep /\ \A j \in 1..(k - 1) : s[j] # sep
         IN <<SubSeq(s, 1, i - 1), SubSeq(s, i + 1, Len(s))>>
    ELSE <<s>>
\* s.split(sep)
RECURSIVE Split(_, _)
Split(s, sep) ==
    LET parts == SplitOnce(s, sep)
    IN IF Len(parts) = 1 THEN parts
       ELSE <<parts[1]>> \o Split(parts[2], sep)
RECURSIVE IntToStr(_)
IntToStr(n) ==
    IF n < 10 THEN <<DecimalChars[n + 1]>>
    ELSE IntToStr(n \div 10) \o <<DecimalChars[(n % 10) + 1]>>

(***************************************************************************)
(* Python values.                                                          *)
(***************************************************************************)
PyNone == [t |-> "none", v |-> <<>>, n |-> 0]
PyStr(s) == [t |-> "str", v |-> s, n |-> 0]
PyInt(k) == [t |-> "int", v |-> <<>>, n |-> k]

PyEq(a, b) == a.t = b.t /\ a.v = b.v /\ a.n = b.n
\* bool(x) is False
Falsy(x) ==
    \/ x.t = "none"
    \/ x.t = "str" /\ x.v = <<>>
    \/ x.t = "int" /\ x.n = 0
\* str(x)
StrOf(x) ==
    IF x.t = "none" THEN <<"N","o","n","e">>
    ELSE IF x.t = "int" THEN IntToStr(x.n)
    ELSE x.v
\* str(x or "")
StrOrEmpty(x) == IF Falsy(x) THEN <<>> ELSE StrOf(x)

(***************************************************************************)
(* Status vocabulary.                                                      *)
(***************************************************************************)
STATUS_PENDING == <<"P","E","N","D","I","N","G">>
STATUS_CONFIRMED == <<"C","O","N","F","I","R","M","E","D">>
STATUS_EXPIRED == <<"E","X","P","I","R","E","D">>
STATUS_CANCELED == <<"C","A","N","C","E","L","E","D">>
STATUS_FAILED == <<"F","A","I","L","E","D">>

PLATEGA_STATUS_CODE_MAP ==
    [c \in {1, 7, 8, 9, 10} |->
        CASE c = 1 -> STATUS_PENDING
          [] c = 7 -> STATUS_CONFIRMED
          [] c = 8 -> STATUS_EXPIRED
          [] c = 9 -> STATUS_CANCELED
          [] c = 10 -> STATUS_FAILED]

\* Ledger statuses
pending == <<"p","e","n","d","i","n","g">>
succeeded == <<"s","u","c","c","e","e","d","e","d">>
canceled == <<"c","a","n","c","e","l","e","d">>
failed == <<"f","a","i","l","e","d">>
expired == <<"e","x","p","i","r","e","d">>
failed_creation ==
    <<"f","a","i","l","e","d","_","c","r","e","a","t","i","o","n">>
Terminal == {succeeded, canceled, failed, failed_creation, expired}

\* _normalize_platega_status: [raises, v]; raises is the ValueError of int().
Raised == [raises |-> TRUE, v |-> <<>>]
Returned(s) == [raises |-> FALSE, v |-> s]
NormalizeDigits(s) ==
    IF IntRaises(s) THEN Raised
    ELSE IF StrToInt(s) \in DOMAIN PLATEGA_STATUS_CODE_MAP
         THEN Returned(PLATEGA_STATUS_CODE_MAP[StrToInt(s)])
         ELSE Returned(s)
normalize_platega_status(raw) ==
    IF raw.t = "int"
    THEN IF raw.n \in DOMAIN PLATEGA_STATUS_CODE_MAP
         THEN Returned(PLATEGA_STATUS_CODE_MAP[raw.n])
         ELSE Returned(Upper(IntToStr(raw.n)))
    ELSE IF raw.t = "str"
    THEN LET s == Upper(Strip(raw.v))
         IN IF IsDigit(s) THEN NormalizeDigits(s) ELSE Returned(s)
    ELSE Returned(Upper(StrOf(raw)))

(***************************************************************************)
(* State.                                                                  *)
(***************************************************************************)
VARIABLES
    settings,      \* PLATEGA_ENABLED, PLATEGA_MERCHANT_ID, PLATEGA_API_SECRET
    payments,      \* committed PaymentRecords, by payment_id
    entitlement,   \* committed paid-through months, by user
    activations,   \* committed activate_subscription calls, by payment_id
    lock,          \* payment_processing_lock: 0 or the request holding it
    req,           \* webhook requests
    inv            \* invoice creations: create_invoice calls, chat-layer flows

vars == <<settings, payments, entitlement, activations, lock, req, inv>>

NoUrl == "None"
\* the price the chat layer charges (amount_rub, price_rub)
InvoiceAmount == 299
NoRecord ==
    [exists |-> FALSE, user_id |-> 0, months |-> 0, amount |-> 0,
     status |-> <<>>, provider_payment_id |-> <<>>]
\* transactionId the provider issues for the c-th create call; "t0" is an
\* id the provider never issued to this shop.
TxId(c) == <<"t", DecimalChars[c + 1]>>

(***************************************************************************)
(* The Ledger (db.dal.payment_dal) and the Subscription Activator          *)
(* (SubscriptionService.activate_subscription).  Their modules are not     *)
(* among the sources modelled here; they follow sections 3, 4.3 and 6 of   *)
(* the specification:                                                      *)
(* lookup by provider transaction id, update by internal id, and           *)
(* extend(current_end, months).  The per-record guard section 4.3 advises  *)
(* the Activator to add is not assumed: the same section places the        *)
(* once-only duty on the caller.  All of them write through the caller's   *)
(* session and leave the commit to the caller.                             *)
(***************************************************************************)
get_payment_by_provider_payment_id(tx) ==
    IF \E p \in Calls : payments[p].exists /\ payments[p].provider_payment_id = tx
    THEN CHOOSE p \in Calls :
            payments[p].exists /\ payments[p].provider_payment_id = tx
    ELSE 0

update_payment_status_by_db_id(pays, p, st) ==
    [pays EXCEPT ![p].status = st]

update_provider_payment_and_status(pays, p, tx, st) ==
    [pays EXCEPT ![p].status = st, ![p].provider_payment_id = tx]

\* extend(current_end, months)
activate_subscription(ent, u, months) ==
    [ent EXCEPT ![u] = @ + months]

(***************************************************************************)
(* platega_webhook_route, up to the lock.  The application context (lines  *)
(* 523-528) is filled at start-up, so the KeyError branch of lines 529-531 *)
(* is not taken.                                                           *)
(***************************************************************************)
HeaderMerchants == {PyNone, PyStr(<<"m">>), PyStr(<<"x">>)}
HeaderSecrets == {PyNone, PyStr(<<"s">>), PyStr(<<"x">>)}
\* the provider has answered the c-th create call with a transactionId
Issued(c) == inv[c].pc = "linking" \/ inv[c].result = "url"
\* the id of an event: absent or null, empty, an id that is none of this
\* shop's, or the id of a transaction the provider has issued
EventIds ==
    {PyNone, PyStr(<<>>), PyStr(TxId(0))}
    \cup {PyStr(TxId(c)) : c \in {d \in Calls : Issued(d)}}
EventStatuses ==
    { PyStr(<<"c","o","n","f","i","r","m","e","d">>), PyInt(7),
      PyStr(STATUS_CANCELED), PyStr(STATUS_FAILED), PyInt(8),
      PyNone, PyStr(<<"sup2">>) }
\* the "amount" of an event: absent, the record's, another number, a
\* number as text, a number with a decimal comma
EventAmounts ==
    { PyNone, PyInt(InvoiceAmount), PyInt(1), PyStr(<<"2","9","9">>),
      PyStr(<<"2","9","9",",","0">>) }
BodiesWith(amounts) ==
    { [kind |-> "badjson", id |-> PyNone, status |-> PyNone,
       amount |-> PyNone],
      [kind |-> "nonobject", id |-> PyNone, status |-> PyNone,
       amount |-> PyNone] }
    \cup { [kind |-> "object", id |-> i, status |-> s, amount |-> a] :
             i \in EventIds, s \in EventStatuses, a \in amounts }
Bodies == BodiesWith({PyNone})

\* line 557, tabulated over the statuses the events carry
Normalized == [s \in EventStatuses |-> normalize_platega_status(s)]

\* lines 541-549
CredentialsOk(hm, hs) ==
    /\ ~Falsy(settings.merchant_id)
    /\ ~Falsy(settings.secret)
    /\ PyEq(hm, settings.merchant_id)
    /\ PyEq(hs, settings.secret)

\* line 558
EventTxId(id) == StrOrEmpty(id)

\* lines 551-561, for a request that passed the credentials check
Parse(body) ==
    IF body.kind = "badjson" THEN 400
    ELSE IF body.kind = "nonobject" THEN 500
    ELSE IF Normalized[body.status].raises THEN 500
    ELSE IF EventTxId(body.id) = <<>> THEN 400
    ELSE 0

\* the exception that leaves the route with that 500: event.get on a value
\* that is no dict (line 557), int() in _normalize_platega_status (line 54)
ParseError(body) ==
    IF body.kind = "nonobject" THEN "AttributeError"
    ELSE IF body.kind = "object" /\ Normalized[body.status].raises
    THEN "ValueError"
    ELSE "no"

Admission_ParseFirst(hm, hs, body) ==
    IF Parse(body) # 0 THEN Parse(body)
    ELSE IF ~CredentialsOk(hm, hs) THEN 401 ELSE 0
\* lines 536-561: the response given before the lock, or 0 to go on
Admission(hm, hs, body) ==
    IF ~CredentialsOk(hm, hs) THEN 401 ELSE Parse(body)

Dispatch_ExpiredAsConfirmed(status) ==
    IF status \in {STATUS_CONFIRMED, STATUS_EXPIRED} THEN "confirmed"
    ELSE IF status \in {STATUS_CANCELED, STATUS_FAILED} THEN "cancelled"
    ELSE "other"
\* lines 566, 577, 582: which processor the canonical status selects
Dispatch(status) ==
    IF status = STATUS_CONFIRMED THEN "confirmed"
    ELSE IF status \in {STATUS_CANCELED, STATUS_FAILED, STATUS_EXPIRED}
    THEN "cancelled"
    ELSE "other"

\* What a request was, in the words of section 7 of the specification:
\* forged (credentials missing or mismatched, or none configured) and the
\* shape of its body.
Forged(hm, hs) ==
    \/ settings.merchant_id.t = "none"
    \/ settings.secret.t = "none"
    \/ hm.t = "none"
    \/ hs.t = "none"
    \/ hm.v # settings.merchant_id.v
    \/ hs.v # settings.secret.v
Shape(body) ==
    IF body.kind # "object" THEN body.kind
    ELSE IF body.id.t = "none" \/ body.id.v = <<>> THEN "no_id"
    ELSE "event"

\* A request: pc, the response, what it was (forged, shape), whether it
\* entered the critical section, and, while it is being processed, the
\* event's id, raw and canonical status and amount, the record found and what the
\* lookup saw of it, the session's uncommitted writes (wrote, activated), the
\* outcome of the notifications, its log entry, and the exception that is propagating to
\* line 586.
NotSeen == [status |-> <<>>, activations |-> 0, entitlement |-> 0]
\* the log entry a request writes about its event: level and the
\* transaction id it names
NoLog == [level |-> "none", tx |-> <<>>]
IdleReq ==
    [pc |-> "idle", resp |-> 0, forged |-> FALSE, shape |-> "none",
     entered |-> FALSE, id |-> PyNone, raw |-> PyNone, status |-> <<>>,
     amount |-> PyNone, rec |-> 0, seen |-> NotSeen, wrote |-> <<>>, activated |-> FALSE,
     sent |-> "no", log |-> NoLog, raised |-> "no"]

Processor(r) == Dispatch(req[r].status)
Tx(r) == EventTxId(req[r].id)

Admitted(hm, hs, body) ==
    [IdleReq EXCEPT !.pc = "waitlock", !.forged = Forged(hm, hs),
                    !.shape = Shape(body), !.id = body.id,
                    !.raw = body.status, !.amount = body.amount,
                    !.status = Normalized[body.status].v]
Rejected(hm, hs, body) ==
    [IdleReq EXCEPT !.pc = "done", !.forged = Forged(hm, hs),
                    !.shape = Shape(body), !.resp = Admission(hm, hs, body),
                    !.raised = IF Admission(hm, hs, body) = 500
                               THEN ParseError(body) ELSE "no"]

\* lines 521-561; requests are numbered in the order they arrive
ReceiveFrom(r, bodies) ==
    /\ req[r].pc = "idle"
    /\ \A q \in Reqs : q < r => req[q].pc # "idle"
    /\ \E hm \in HeaderMerchants, hs \in HeaderSecrets, body \in bodies :
        req' = [req EXCEPT ![r] =
                  IF Admission(hm, hs, body) = 0
                  THEN Admitted(hm, hs, body)
                  ELSE Rejected(hm, hs, body)]
    /\ UNCHANGED <<settings, payments, entitlement, activations, lock, inv>>

Receive(r) == ReceiveFrom(r, Bodies)
ReceiveWithAmount(r) == ReceiveFrom(r, BodiesWith(EventAmounts))

LockFree_NotChecked == TRUE
\* line 563: asyncio.Lock
LockFree == lock = 0

AcquireLock(r) ==
    /\ req[r].pc = "waitlock"
    /\ LockFree
    /\ lock' = r
    /\ req' = [req EXCEPT ![r].pc = "locked", ![r].entered = TRUE]
    /\ UNCHANGED <<settings, payments, entitlement, activations, inv>>

\* lines 583-585: logging.info
StatusLog(r) == [level |-> "info", tx |-> Tx(r)]

\* lines 582-585
LogOnly(r) ==
    /\ req[r].pc = "locked"
    /\ Processor(r) = "other"
    /\ req' = [req EXCEPT ![r].pc = "release", ![r].resp = 200,
                          ![r].log = StatusLog(r)]
    /\ UNCHANGED <<settings, payments, entitlement, activations, lock, inv>>

AfterLookup_NoCheck(p) == "write"
\* lines 339-346, 488-495
AfterLookup(p) == IF p = 0 THEN "commit" ELSE "write"

Seen(p) ==
    IF p = 0 THEN NotSeen
    ELSE [status |-> payments[p].status, activations |-> activations[p],
          entitlement |-> entitlement[payments[p].user_id]]

\* line 332: float(event.get("amount") or 0.0)
AmountRaises(r) ==
    /\ Processor(r) = "confirmed"
    /\ ~Falsy(req[r].amount)
    /\ req[r].amount.t = "str"
    /\ FloatRaises(req[r].amount.v)

\* lines 343-345: logging.error; lines 492-494: logging.warning
NotFoundLog(r) ==
    [level |-> IF Processor(r) = "confirmed" THEN "error" ELSE "warning",
     tx |-> Tx(r)]

Lookup(r) ==
    /\ req[r].pc = "locked"
    /\ Processor(r) # "other"
    /\ ~AmountRaises(r)
    /\ LET p == get_payment_by_provider_payment_id(Tx(r))
       IN req' = [req EXCEPT ![r].rec = p, ![r].seen = Seen(p),
                             ![r].log = IF p = 0 THEN NotFoundLog(r)
                                        ELSE NoLog,
                             ![r].pc = AfterLookup(p)]
    /\ UNCHANGED <<settings, payments, entitlement, activations, lock, inv>>

AfterFailure_Swallowed == "commit"
\* an exception leaves the processor: lines 586-587
AfterFailure == "rollback"

\* line 332 raises ValueError
AmountFails(r) ==
    /\ req[r].pc = "locked"
    /\ AmountRaises(r)
    /\ req' = [req EXCEPT ![r].pc = AfterFailure, ![r].raised = "amount"]
    /\ UNCHANGED <<settings, payments, entitlement, activations, lock, inv>>

LookupFails(r) ==
    /\ req[r].pc = "locked"
    /\ Processor(r) # "other"
    /\ ~AmountRaises(r)
    /\ req' = [req EXCEPT ![r].pc = AfterFailure, ![r].raised = "lookup"]
    /\ UNCHANGED <<settings, payments, entitlement, activations, lock, inv>>

\* line 331 and line 357
ConfirmedNewStatus(raw) ==
    IF Upper(StrOrEmpty(raw)) = STATUS_CONFIRMED
    THEN succeeded ELSE failed
\* line 502
CancelledNewStatus(raw) == canceled

NewStatus(r) ==
    IF Processor(r) = "confirmed"
    THEN ConfirmedNewStatus(req[r].raw)
    ELSE CancelledNewStatus(req[r].raw)

AfterWrite(r) ==
    IF Processor(r) = "confirmed" THEN "activate" ELSE "notify"

\* lines 352-359, 497-504: update + flush in the session
StatusWrite(r) ==
    /\ req[r].pc = "write"
    /\ req' = [req EXCEPT ![r].wrote = NewStatus(r), ![r].pc = AfterWrite(r)]
    /\ UNCHANGED <<settings, payments, entitlement, activations, lock, inv>>

\* lines 360-364, 505-506: the write raises; logged, processing goes on
StatusWriteFails(r) ==
    /\ req[r].pc = "write"
    /\ req' = [req EXCEPT ![r].pc = AfterWrite(r)]
    /\ UNCHANGED <<settings, payments, entitlement, activations, lock, inv>>

\* lines 367-375
Activate(r) ==
    /\ req[r].pc = "activate"
    /\ req' = [req EXCEPT ![r].activated = TRUE, ![r].pc = "referral"]
    /\ UNCHANGED <<settings, payments, entitlement, activations, lock, inv>>

\* lines 376-377, 468-473: raises, or returns no end_date
ActivateFails(r) ==
    /\ req[r].pc = "activate"
    /\ req' = [req EXCEPT ![r].pc = AfterFailure, ![r].raised = "activation"]
    /\ UNCHANGED <<settings, payments, entitlement, activations, lock, inv>>

\* lines 379-385
Referral(r) ==
    /\ req[r].pc = "referral"
    /\ req' = [req EXCEPT ![r].pc = "notify"]
    /\ UNCHANGED <<settings, payments, entitlement, activations, lock, inv>>

ReferralFails(r) ==
    /\ req[r].pc = "referral"
    /\ req' = [req EXCEPT ![r].pc = AfterFailure, ![r].raised = "referral"]
    /\ UNCHANGED <<settings, payments, entitlement, activations, lock, inv>>

\* lines 444-466, 512-516: bot.send_message delivers the user's message or
\* raises ("failed"); on the confirmed path notify_payment_received follows
\* and may raise as well ("note_failed")
NotifyOutcomes(r) ==
    IF Processor(r) = "confirmed"
    THEN {"delivered", "failed", "note_failed"}
    ELSE {"delivered", "failed"}

AfterNotify_Propagates(outcome) ==
    IF outcome = "delivered" THEN "commit" ELSE "rollback"
\* lines 452-453, 465-466, 515-516: the exception is caught and logged
AfterNotify(outcome) == "commit"

\* lines 395-466, 508-516: the message is built and sent
Notify(r) ==
    /\ req[r].pc = "notify"
    /\ \E outcome \in NotifyOutcomes(r) :
        req' = [req EXCEPT ![r].sent = outcome, ![r].pc = AfterNotify(outcome)]
    /\ UNCHANGED <<settings, payments, entitlement, activations, lock, inv>>

\* lines 395, 508: user_dal.get_user_by_id raises
NotifyLookupFails(r) ==
    /\ req[r].pc = "notify"
    /\ req' = [req EXCEPT ![r].pc = AfterFailure, ![r].raised = "notify"]
    /\ UNCHANGED <<settings, payments, entitlement, activations, lock, inv>>

\* payment_model.subscription_duration_months or 1 (line 349)
MonthsOf(p) == IF payments[p].months = 0 THEN 1 ELSE payments[p].months

LinkedId_FromOtherField(r) == StrOf(PyNone)
\* lines 355, 500: provider_payment_id=transaction_id
LinkedId(r) == Tx(r)

\* what session.commit() makes durable (lines 576, 581)
CommittedPayments(r) ==
    IF req[r].wrote # <<>>
    THEN update_provider_payment_and_status(
            payments, req[r].rec, LinkedId(r), req[r].wrote)
    ELSE payments
CommittedEntitlement(r) ==
    IF req[r].activated
    THEN activate_subscription(
            entitlement, payments[req[r].rec].user_id, MonthsOf(req[r].rec))
    ELSE entitlement
CommittedActivations(r) ==
    IF req[r].activated
    THEN [activations EXCEPT ![req[r].rec] = @ + 1]
    ELSE activations

Commit(r) ==
    /\ req[r].pc = "commit"
    /\ payments' = CommittedPayments(r)
    /\ entitlement' = CommittedEntitlement(r)
    /\ activations' = CommittedActivations(r)
    /\ req' = [req EXCEPT ![r].pc = "release", ![r].resp = 200]
    /\ UNCHANGED <<settings, lock, inv>>

CommitFails(r) ==
    /\ req[r].pc = "commit"
    /\ req' = [req EXCEPT ![r].pc = AfterFailure, ![r].raised = "commit"]
    /\ UNCHANGED <<settings, payments, entitlement, activations, lock, inv>>

\* lines 586-592: session.rollback() drops the session's writes
RolledBack(q) == [q EXCEPT !.wrote = <<>>, !.activated = FALSE]

Rollback(r) ==
    /\ req[r].pc = "rollback"
    /\ req' = [req EXCEPT ![r] =
                [RolledBack(req[r]) EXCEPT !.pc = "release", !.resp = 200]]
    /\ UNCHANGED <<settings, payments, entitlement, activations, lock, inv>>

\* leaving "async with payment_processing_lock"; the response is returned
Release(r) ==
    /\ req[r].pc = "release"
    /\ lock' = 0
    /\ req' = [req EXCEPT ![r] =
                [IdleReq EXCEPT !.pc = "done", !.resp = req[r].resp,
                                !.shape = req[r].shape, !.entered = TRUE]]
    /\ UNCHANGED <<settings, payments, entitlement, activations, inv>>

\* The request is cancelled (the client has gone) while it waits
\* for the lock or at an await inside it.  CancelledError is no Exception:
\* line 586 does not catch it, "async with" closes the session, which drops
\* its uncommitted writes (line 564), and releases the lock if the request
\* holds it (line 563).  No response is sent.
CancelPoints ==
    {"waitlock", "locked", "write", "activate", "referral", "notify",
     "commit", "rollback", "release"}

AfterCancel_Held(r) == lock
AfterCancel(r) == IF lock = r THEN 0 ELSE lock

Cancel(r) ==
    /\ req[r].pc \in CancelPoints
    /\ lock' = AfterCancel(r)
    /\ req' = [req EXCEPT ![r] =
                [IdleReq EXCEPT !.pc = "cancelled", !.shape = req[r].shape,
                                !.entered = req[r].entered]]
    /\ UNCHANGED <<settings, payments, entitlement, activations, inv>>

(***************************************************************************)
(* PlategaService.create_invoice.                                          *)
(***************************************************************************)
\* lines 103-105
configured ==
    /\ settings.enabled
    /\ ~Falsy(settings.merchant_id)
    /\ ~Falsy(settings.secret)

\* A create_invoice call: pc, how the provider's call went (provider), the
\* "status" of its answer, whether a Ledger write after the insert failed
\* (db_failed), and what the call returned.
IdleCall ==
    [pc |-> "idle", provider |-> "none", api_status |-> PyNone,
     db_failed |-> FALSE, result |-> "running"]

\* lines 159-167
NewPaymentRecord(u, m) ==
    [exists |-> TRUE, user_id |-> u, months |-> m, amount |-> InvoiceAmount,
     status |-> pending, provider_payment_id |-> <<>>]

\* lines 151-153
CreateInvoiceNotConfigured(c) ==
    /\ inv[c].pc = "idle"
    /\ ~configured
    /\ inv' = [inv EXCEPT ![c].pc = "done", ![c].result = NoUrl]
    /\ UNCHANGED <<settings, payments, entitlement, activations, lock, req>>

\* lines 168-172: the record is inserted and committed, for one of the given
\* users and durations
CreateInvoiceInsertFor(c, users, months) ==
    /\ inv[c].pc = "idle"
    /\ configured
    /\ \E u \in users, m \in months :
        payments' = [payments EXCEPT ![c] = NewPaymentRecord(u, m)]
    /\ inv' = [inv EXCEPT ![c].pc = "posting"]
    /\ UNCHANGED <<settings, entitlement, activations, lock, req>>

CreateInvoiceInsert(c) == CreateInvoiceInsertFor(c, Users, MonthsChoice)

AfterInsertFailure_GoesOn == "posting"
\* line 179: return None
AfterInsertFailure == "done"

\* lines 173-179
CreateInvoiceInsertFails(c) ==
    /\ inv[c].pc = "idle"
    /\ configured
    /\ inv' = [inv EXCEPT ![c].pc = AfterInsertFailure,
                          ![c].result = IF AfterInsertFailure = "done"
                                        THEN NoUrl ELSE "running"]
    /\ UNCHANGED <<settings, payments, entitlement, activations, lock, req>>

\* lines 219-222, 230-233, 245-248: the write of failed_creation, which may
\* itself fail and is then rolled back (lines 223-224, 234-235, 249-250)
MarkFailedCreation(c, db_ok) ==
    IF db_ok
    THEN update_payment_status_by_db_id(payments, c, failed_creation)
    ELSE payments

\* lines 216-236, 242-251: the call raises, answers with another HTTP status,
\* with a body json.loads() rejects, or with an object that lacks
\* transactionId or redirect
ProviderFailures ==
    {"raises", "http_status", "bad_json", "no_transaction_id", "no_redirect"}

ProviderFails(c) ==
    /\ inv[c].pc = "posting"
    /\ \E kind \in ProviderFailures, db_ok \in BOOLEAN :
        /\ payments' = MarkFailedCreation(c, db_ok)
        /\ inv' = [inv EXCEPT ![c].pc = "done", ![c].provider = kind,
                              ![c].db_failed = ~db_ok, ![c].result = NoUrl]
    /\ UNCHANGED <<settings, entitlement, activations, lock, req>>

\* lines 226, 238: the body is JSON but no object; data.get raises
ProviderAnswersNonObject(c) ==
    /\ inv[c].pc = "posting"
    /\ inv' = [inv EXCEPT ![c].pc = "done", ![c].provider = "non_object",
                          ![c].result = "raised"]
    /\ UNCHANGED <<settings, payments, entitlement, activations, lock, req>>

\* the "status" field of the provider's answer; absent, line 240 takes
\* STATUS_PENDING
ApiStatuses ==
    {PyStr(STATUS_PENDING), PyStr(STATUS_CONFIRMED), PyInt(1), PyNone}

ProviderAnswers(c) ==
    /\ inv[c].pc = "posting"
    /\ \E st \in ApiStatuses :
        inv' = [inv EXCEPT ![c].pc = "linking", ![c].provider = "answered",
                          ![c].api_status = st]
    /\ UNCHANGED <<settings, payments, entitlement, activations, lock, req>>

\* lines 258-260
LinkedStatus(st) ==
    IF st.t = "str" /\ st.v = STATUS_PENDING
    THEN pending
    ELSE Lower(StrOf(st))

\* lines 253-262
Link(c) ==
    /\ inv[c].pc = "linking"
    /\ payments' = update_provider_payment_and_status(
                      payments, c, TxId(c), LinkedStatus(inv[c].api_status))
    /\ inv' = [inv EXCEPT ![c].pc = "done", ![c].result = "url"]
    /\ UNCHANGED <<settings, entitlement, activations, lock, req>>

\* lines 263-269
LinkFails(c) ==
    /\ inv[c].pc = "linking"
    /\ inv' = [inv EXCEPT ![c].pc = "done", ![c].db_failed = TRUE,
                          ![c].result = "url"]
    /\ UNCHANGED <<settings, payments, entitlement, activations, lock, req>>

(***************************************************************************)
(* The system.                                                             *)
(***************************************************************************)
SettingsChoice ==
    [enabled : BOOLEAN,
     merchant_id : {PyNone, PyStr(<<"m">>)},
     secret : {PyNone, PyStr(<<"s">>)}]

Init ==
    /\ settings \in SettingsChoice
    /\ payments = [p \in Calls |-> NoRecord]
    /\ entitlement = [u \in Users |-> 0]
    /\ activations = [p \in Calls |-> 0]
    /\ lock = 0
    /\ req = [r \in Reqs |-> IdleReq]
    /\ inv = [c \in Calls |-> IdleCall]

Next ==
    \/ \E r \in 1..MaxRequests :
        \/ Receive(r)
        \/ AcquireLock(r)
        \/ LogOnly(r)
        \/ Lookup(r)
        \/ LookupFails(r)
        \/ StatusWrite(r)
        \/ StatusWriteFails(r)
        \/ Activate(r)
        \/ ActivateFails(r)
        \/ Referral(r)
        \/ ReferralFails(r)
        \/ Notify(r)
        \/ NotifyLookupFails(r)
        \/ Commit(r)
        \/ CommitFails(r)
        \/ Rollback(r)
        \/ Release(r)
    \/ \E c \in 1..MaxInvoices :
        \/ CreateInvoiceNotConfigured(c)
        \/ CreateInvoiceInsert(c)
        \/ CreateInvoiceInsertFails(c)
        \/ ProviderFails(c)
        \/ ProviderAnswersNonObject(c)
        \/ ProviderAnswers(c)
        \/ Link(c)
        \/ LinkFails(c)

Spec == Init /\ [][Next]_vars

\* The same system with several invoices and their webhooks.
NextLedger ==
    \/ \E r \in 1..MaxLedgerRequests :
        \/ Receive(r)
        \/ AcquireLock(r)
        \/ LogOnly(r)
        \/ Lookup(r)
        \/ LookupFails(r)
        \/ StatusWrite(r)
        \/ StatusWriteFails(r)
        \/ Activate(r)
        \/ ActivateFails(r)
        \/ Referral(r)
        \/ ReferralFails(r)
        \/ Notify(r)
        \/ NotifyLookupFails(r)
        \/ Commit(r)
        \/ CommitFails(r)
        \/ Rollback(r)
        \/ Release(r)
    \/ \E c \in 1..MaxLedgerInvoices :
        \/ CreateInvoiceNotConfigured(c)
        \/ CreateInvoiceInsert(c)
        \/ CreateInvoiceInsertFails(c)
        \/ ProviderFails(c)
        \/ ProviderAnswersNonObject(c)
        \/ ProviderAnswers(c)
        \/ Link(c)
        \/ LinkFails(c)

SpecLedger == Init /\ [][NextLedger]_vars

\* The same system with events that carry an amount.
NextAmount ==
    \/ \E r \in 1..MaxAmountRequests :
        \/ ReceiveWithAmount(r)
        \/ AcquireLock(r)
        \/ LogOnly(r)
        \/ AmountFails(r)
        \/ Lookup(r)
        \/ LookupFails(r)
        \/ StatusWrite(r)
        \/ StatusWriteFails(r)
        \/ Activate(r)
        \/ ActivateFails(r)
        \/ Referral(r)
        \/ ReferralFails(r)
        \/ Notify(r)
        \/ NotifyLookupFails(r)
        \/ Commit(r)
        \/ CommitFails(r)
        \/ Rollback(r)
        \/ Release(r)
    \/ \E c \in 1..MaxAmountInvoices :
        \/ CreateInvoiceNotConfigured(c)
        \/ CreateInvoiceInsert(c)
        \/ CreateInvoiceInsertFails(c)
        \/ ProviderFails(c)
        \/ ProviderAnswersNonObject(c)
        \/ ProviderAnswers(c)
        \/ Link(c)
        \/ LinkFails(c)

SpecAmount == Init /\ [][NextAmount]_vars

\* The webhook route with requests that may be cancelled, from the state in
\* which one invoice has been created and linked.  The event loop runs every
\* coroutine that is ready, asyncio.Lock wakes its waiters in turn, and the
\* collaborators answer: a request that can take a step takes one.
LinkedCall ==
    [IdleCall EXCEPT !.pc = "done", !.provider = "answered",
                     !.api_status = PyStr(STATUS_PENDING), !.result = "url"]
LinkedRecord(u, m) ==
    [NewPaymentRecord(u, m) EXCEPT !.provider_payment_id = TxId(1)]

InitLive ==
    /\ settings = [enabled |-> TRUE, merchant_id |-> PyStr(<<"m">>),
                   secret |-> PyStr(<<"s">>)]
    /\ \E u \in Users, m \in MonthsChoice :
        payments = [p \in Calls |-> IF p = 1 THEN LinkedRecord(u, m)
                                    ELSE NoRecord]
    /\ entitlement = [u \in Users |-> 0]
    /\ activations = [p \in Calls |-> 0]
    /\ lock = 0
    /\ req = [r \in Reqs |-> IdleReq]
    /\ inv = [c \in Calls |-> IF c = 1 THEN LinkedCall ELSE IdleCall]

Progress(r) ==
    \/ AcquireLock(r)
    \/ LogOnly(r)
    \/ Lookup(r)
    \/ LookupFails(r)
    \/ StatusWrite(r)
    \/ StatusWriteFails(r)
    \/ Activate(r)
    \/ ActivateFails(r)
    \/ Referral(r)
    \/ ReferralFails(r)
    \/ Notify(r)
    \/ NotifyLookupFails(r)
    \/ Commit(r)
    \/ CommitFails(r)
    \/ Rollback(r)
    \/ Release(r)

NextLive ==
    \E r \in 1..MaxLiveRequests :
        \/ Receive(r)
        \/ Progress(r)
        \/ Cancel(r)

Fairness == \A r \in 1..MaxLiveRequests : WF_vars(Progress(r))

SpecLive == InitLive /\ [][NextLive]_vars /\ Fairness

(***************************************************************************)
(* _normalize_platega_status on its own, over raw statuses of every type   *)
(* a JSON "status" field can have here: null, integers, strings.           *)
(***************************************************************************)
RawAlphabet == {" ", "0", "1", "7", "8", "c", "D", "sup2"}
RawStrings == UNION {[1..n -> RawAlphabet] : n \in 0..MaxRawLen}

\* line 557, for a request that carries the raw status
Normalizes(r, raw) ==
    LET out == normalize_platega_status(raw)
    IN req' = [req EXCEPT ![r].pc = "normalized", ![r].raw = raw,
                          ![r].status = out.v,
                          ![r].raised = IF out.raises THEN "ValueError"
                                        ELSE "no"]

NormalizeStatus(r) ==
    /\ req[r].pc = "idle"
    /\ \/ Normalizes(r, PyNone)
       \/ \E n \in 0..MaxRawInt : Normalizes(r, PyInt(n))
       \/ \E str \in RawStrings : Normalizes(r, PyStr(str))
       \/ \E raw \in EventStatuses : Normalizes(r, raw)
    /\ UNCHANGED <<settings, payments, entitlement, activations, lock, inv>>

NextNormalize == NormalizeStatus(1)

SpecNormalize == Init /\ [][NextNormalize]_vars

(***************************************************************************)
(* The chat layer's invoice-creation flows                                 *)
(* (bot/handlers/user/subscription/payments.py): _initiate_yk_payment for  *)
(* YooKassa and pay_fk_callback_handler for FreeKassa.  Each flow inserts  *)
(* its PaymentRecord, asks the provider for a payment, and shows the user  *)
(* a payment link or an error message.  A flow uses a slot of inv and the  *)
(* record of the same number.  The provider services return their failures *)
(* as values (no answer, success = False); the saved payment methods that  *)
(* _initiate_yk_payment also stores belong to another table and are left   *)
(* out.                                                                    *)
(***************************************************************************)
pending_yookassa == pending \o <<"_","y","o","o","k","a","s","s","a">>
pending_freekassa == pending \o <<"_","f","r","e","e","k","a","s","s","a">>

\* the provider's id of the payment made for the c-th flow
OrderId(c) == <<"o", DecimalChars[c + 1]>>

\* payment_dal.update_payment_status_by_db_id with yk_payment_id
update_payment_status_with_yk_id(pays, p, st, yk_id) ==
    [pays EXCEPT ![p].status = st, ![p].provider_payment_id = yk_id]

\* What a handler of the chat layer was called with: whether the update
\* carries a message and translations (message), whether the payment service
\* was injected (service), YOOKASSA_AUTOPAYMENTS_ENABLED (autopay), the
\* calling user, the callback data or invoice payload (data), the months
\* and the payment id parsed from it, the saved payment methods in the
\* database (saved) and whether their lookup succeeds (lookup_ok).
NoArgs ==
    [message |-> TRUE, service |-> TRUE, autopay |-> FALSE, user |-> 0,
     data |-> <<>>, months |-> 0, payment_db_id |-> 0, saved |-> {},
     lookup_ok |-> TRUE]

\* What ProfileSyncMiddleware finds and does: data["session"] and
\* data["event_from_user"] present or not, what get_user_by_id does (lookup),
\* the stored profile (db) and the sanitized profile of the update (tg),
\* whether update_user and the panel's update succeed, whether the user is
\* linked to a panel account, what the wrapped handler does, and the
\* effects: the profile update and the panel update that took place.
NoSync ==
    [session |-> FALSE, tg_user |-> FALSE, lookup |-> "none",
     db |-> <<>>, tg |-> <<>>, update_ok |-> TRUE, panel_linked |-> FALSE,
     panel_ok |-> TRUE, handler |-> "none",
     db_updated |-> FALSE, panel_updated |-> FALSE]

\* A flow: which handler started it (handler) with which arguments (args),
\* how often it called its service (calls), which flow runs (flow), whether
\* a saved payment method pays (payment_method_id) and which (method, its
\* method_id), what the provider
\* answered (provider, has_id, api_status), whether a Ledger write after the
\* insert failed (db_failed), whether a message to the user was lost (lost),
\* the texts shown to the user (shown) and what the flow returned.
IdleFlow ==
    [pc |-> "idle", handler |-> "none", args |-> NoArgs, sync |-> NoSync,
     calls |-> 0,
     flow |-> "none", payment_method_id |-> FALSE, method |-> 0,
     provider |-> "not_called", has_id |-> FALSE, api_status |-> PyNone,
     db_failed |-> FALSE, lost |-> FALSE, shown |-> {}, result |-> "running"]

\* callback.message.edit_text / .answer / callback.answer inside
\* try ... except Exception: pass
Show(c, texts, delivered) ==
    IF delivered THEN inv[c].shown \cup texts ELSE inv[c].shown

\* lines 185-192
NewYkPaymentRecord(u, m) ==
    [exists |-> TRUE, user_id |-> u, months |-> m, amount |-> InvoiceAmount,
     status |-> pending_yookassa, provider_payment_id |-> <<>>]

\* lines 181-182: the callback carries no message (a handler that calls the
\* flow has made sure of the message before)
YkNoMessage(c) ==
    /\ inv[c].pc = "idle"
    /\ inv[c].handler = "none"
    /\ inv' = [inv EXCEPT ![c].pc = "done", ![c].flow = "yk",
                          ![c].provider = "no_message",
                          ![c].result = "False"]
    /\ UNCHANGED <<settings, payments, entitlement, activations, lock, req>>

\* lines 194-201: the record is inserted and committed, for one of the given
\* users and durations, with or without a saved payment method
YkInsertFor(c, users, months, methods) ==
    /\ inv[c].pc = "idle"
    /\ \E u \in users, m \in months, saved \in methods :
        /\ payments' = [payments EXCEPT ![c] = NewYkPaymentRecord(u, m)]
        /\ inv' = [inv EXCEPT ![c].pc = "yk_creating", ![c].flow = "yk",
                              ![c].payment_method_id = saved]
    /\ UNCHANGED <<settings, entitlement, activations, lock, req>>

YkInsert(c) == YkInsertFor(c, Users, MonthsChoice, BOOLEAN)

\* lines 202-218
YkInsertFails(c) ==
    /\ inv[c].pc = "idle"
    /\ \E delivered \in BOOLEAN :
        inv' = [inv EXCEPT ![c].pc = "done", ![c].flow = "yk",
                  ![c].shown = Show(c, {"error_creating_payment_record"},
                                    delivered),
                  ![c].lost = ~delivered, ![c].result = "False"]
    /\ UNCHANGED <<settings, payments, entitlement, activations, lock, req>>

\* lines 230-238: yookassa_service.create_payment answers nothing, a payment
\* without confirmation_url, or a payment with one
YkResponses == {"nothing", "no_confirmation_url", "confirmation_url"}
\* the "status" of its answer; absent, lines 288 and 344 take "pending"
YkStatuses == {PyNone, PyStr(pending), PyStr(succeeded)}

YkCreatePayment(c) ==
    /\ inv[c].pc = "yk_creating"
    /\ \E resp \in YkResponses, st \in YkStatuses :
        inv' = [inv EXCEPT ![c].pc = "yk_created", ![c].provider = resp,
                          ![c].api_status = IF resp = "nothing" THEN PyNone
                                            ELSE st]
    /\ UNCHANGED <<settings, payments, entitlement, activations, lock, req>>

\* lines 240, 343, 389: what the flow does with the provider's answer
YkBranch(resp, saved) ==
    CASE resp = "confirmation_url" -> "link"
      [] resp = "no_confirmation_url" /\ saved -> "saved_card"
      [] OTHER -> "failed_creation"

\* lines 288, 344
YkStoredStatus(st) == IF st.t = "none" THEN pending ELSE st.v

\* lines 284-298, 311-341: the provider's status and id are stored and the
\* payment link is shown
YkLink(c) ==
    /\ inv[c].pc = "yk_created"
    /\ YkBranch(inv[c].provider, inv[c].payment_method_id) = "link"
    /\ payments' = update_payment_status_with_yk_id(
                      payments, c, YkStoredStatus(inv[c].api_status),
                      OrderId(c))
    /\ \E delivered \in BOOLEAN :
        inv' = [inv EXCEPT ![c].pc = "done",
                  ![c].shown = Show(c, {"payment_link_message"}, delivered),
                  ![c].lost = ~delivered, ![c].result = "True"]
    /\ UNCHANGED <<settings, entitlement, activations, lock, req>>

YkWriteFailure_ShowsLink ==
    [shown |-> "payment_link_message", result |-> "True"]
\* lines 305-309: after the rollback, the error text and return False
YkWriteFailure ==
    [shown |-> "error_payment_gateway_link_failed", result |-> "False"]

\* lines 299-309: the write of the provider's id and status fails and is
\* rolled back
YkLinkFails(c) ==
    /\ inv[c].pc = "yk_created"
    /\ YkBranch(inv[c].provider, inv[c].payment_method_id) = "link"
    /\ \E delivered \in BOOLEAN :
        inv' = [inv EXCEPT ![c].pc = "done", ![c].db_failed = TRUE,
                  ![c].shown = Show(c, {YkWriteFailure.shown}, delivered),
                  ![c].lost = ~delivered,
                  ![c].result = YkWriteFailure.result]
    /\ UNCHANGED <<settings, payments, entitlement, activations, lock, req>>

\* lines 343-387: a saved payment method is charged without a link
YkSavedCard(c) ==
    /\ inv[c].pc = "yk_created"
    /\ YkBranch(inv[c].provider, inv[c].payment_method_id) = "saved_card"
    /\ \E db_ok \in BOOLEAN, delivered \in BOOLEAN :
        /\ payments' =
            IF db_ok
            THEN update_payment_status_with_yk_id(
                    payments, c, YkStoredStatus(inv[c].api_status),
                    OrderId(c))
            ELSE payments
        /\ inv' = [inv EXCEPT ![c].pc = "done", ![c].db_failed = ~db_ok,
                     ![c].shown =
                        Show(c, IF db_ok
                                THEN {"yookassa_autopay_charge_initiated"}
                                ELSE {"error_payment_gateway"}, delivered),
                     ![c].lost = ~delivered,
                     ![c].result = IF db_ok THEN "True" ELSE "False"]
    /\ UNCHANGED <<settings, entitlement, activations, lock, req>>

\* lines 389-407
YkFailedCreation(c) ==
    /\ inv[c].pc = "yk_created"
    /\ YkBranch(inv[c].provider, inv[c].payment_method_id) = "failed_creation"
    /\ \E db_ok \in BOOLEAN, delivered \in BOOLEAN :
        /\ payments' = MarkFailedCreation(c, db_ok)
        /\ inv' = [inv EXCEPT ![c].pc = "done", ![c].db_failed = ~db_ok,
                     ![c].shown = Show(c, {"error_payment_gateway"},
                                       delivered),
                     ![c].lost = ~delivered, ![c].result = "False"]
    /\ UNCHANGED <<settings, entitlement, activations, lock, req>>

\* lines 920-950: no i18n or no message, FreeKassa not configured, or
\* callback data that does not parse
FkRefusals ==
    [no_message |-> {"error_occurred_try_again"},
     not_configured |-> {"payment_service_unavailable_alert",
                         "payment_service_unavailable"},
     bad_callback_data |-> {"error_try_again"}]

FkRefuses(c) ==
    /\ inv[c].pc = "idle"
    /\ \E why \in DOMAIN FkRefusals, delivered \in BOOLEAN :
        inv' = [inv EXCEPT ![c].pc = "done", ![c].flow = "fk",
                  ![c].provider = why,
                  ![c].shown = Show(c, FkRefusals[why], delivered),
                  ![c].lost = ~delivered, ![c].result = "None"]
    /\ UNCHANGED <<settings, payments, entitlement, activations, lock, req>>

\* lines 956-964
NewFkPaymentRecord(u, m) ==
    [exists |-> TRUE, user_id |-> u, months |-> m, amount |-> InvoiceAmount,
     status |-> pending_freekassa, provider_payment_id |-> <<>>]

\* lines 966-969
FkInsert(c) ==
    /\ inv[c].pc = "idle"
    /\ \E u \in Users, m \in MonthsChoice :
        payments' = [payments EXCEPT ![c] = NewFkPaymentRecord(u, m)]
    /\ inv' = [inv EXCEPT ![c].pc = "fk_creating", ![c].flow = "fk"]
    /\ UNCHANGED <<settings, entitlement, activations, lock, req>>

\* lines 970-983
FkInsertFails(c) ==
    /\ inv[c].pc = "idle"
    /\ \E delivered \in BOOLEAN :
        inv' = [inv EXCEPT ![c].pc = "done", ![c].flow = "fk",
                  ![c].shown = Show(c, {"error_creating_payment_record",
                                        "error_try_again"}, delivered),
                  ![c].lost = ~delivered, ![c].result = "None"]
    /\ UNCHANGED <<settings, payments, entitlement, activations, lock, req>>

\* lines 985-1002: freekassa_service.create_order fails, or succeeds with or
\* without a location (the payment link) and an order id
FkResponses == {"failed", "no_location", "location"}

FkCreateOrder(c) ==
    /\ inv[c].pc = "fk_creating"
    /\ \E resp \in FkResponses, id \in BOOLEAN :
        inv' = [inv EXCEPT ![c].pc = "fk_created", ![c].provider = resp,
                          ![c].has_id = (resp # "failed" /\ id)]
    /\ UNCHANGED <<settings, payments, entitlement, activations, lock, req>>

\* lines 1004-1018: the order id is stored with the record's own status; a
\* failure of this write is only logged
FkStoreOrderId(c) ==
    /\ inv[c].pc = "fk_created"
    /\ \E db_ok \in BOOLEAN :
        /\ payments' =
            IF inv[c].has_id /\ db_ok
            THEN update_provider_payment_and_status(
                    payments, c, OrderId(c), payments[c].status)
            ELSE payments
        /\ inv' = [inv EXCEPT ![c].pc = "fk_stored",
                     ![c].db_failed = (inv[c].has_id /\ ~db_ok)]
    /\ UNCHANGED <<settings, entitlement, activations, lock, req>>

\* lines 998, 1020, 1061-1070: what the flow does with the provider's answer
FkBranch_LinkOnSuccess(resp) ==
    IF resp # "failed" THEN "link" ELSE "failed_creation"

FkBranch(resp) ==
    IF resp = "location" THEN "link" ELSE "failed_creation"

\* lines 1020-1059
FkLink(c) ==
    /\ inv[c].pc = "fk_stored"
    /\ FkBranch(inv[c].provider) = "link"
    /\ \E delivered \in BOOLEAN :
        inv' = [inv EXCEPT ![c].pc = "done",
                  ![c].shown = Show(c, {"free_kassa_order_info",
                                        "payment_link_message"}, delivered),
                  ![c].lost = ~delivered, ![c].result = "None"]
    /\ UNCHANGED <<settings, payments, entitlement, activations, lock, req>>

\* lines 1072-1091
FkFailedCreation(c) ==
    /\ inv[c].pc = "fk_stored"
    /\ FkBranch(inv[c].provider) = "failed_creation"
    /\ \E db_ok \in BOOLEAN, delivered \in BOOLEAN :
        /\ payments' = MarkFailedCreation(c, db_ok)
        /\ inv' = [inv EXCEPT ![c].pc = "done",
                     ![c].db_failed = (inv[c].db_failed \/ ~db_ok),
                     ![c].shown = Show(c, {"error_payment_gateway"},
                                       delivered),
                     ![c].lost = ~delivered, ![c].result = "None"]
    /\ UNCHANGED <<settings, entitlement, activations, lock, req>>

\* the flows read none of the Platega settings
InitChat ==
    /\ settings = [enabled |-> FALSE, merchant_id |-> PyNone,
                   secret |-> PyNone]
    /\ payments = [p \in Calls |-> NoRecord]
    /\ entitlement = [u \in Users |-> 0]
    /\ activations = [p \in Calls |-> 0]
    /\ lock = 0
    /\ req = [r \in Reqs |-> IdleReq]
    /\ inv = [c \in Calls |-> IdleFlow]

NextChat ==
    \E c \in 1..MaxFlows :
        \/ YkNoMessage(c)
        \/ YkInsert(c)
        \/ YkInsertFails(c)
        \/ YkCreatePayment(c)
        \/ YkLink(c)
        \/ YkLinkFails(c)
        \/ YkSavedCard(c)
        \/ YkFailedCreation(c)
        \/ FkRefuses(c)
        \/ FkInsert(c)
        \/ FkInsertFails(c)
        \/ FkCreateOrder(c)
        \/ FkStoreOrderId(c)
        \/ FkLink(c)
        \/ FkFailedCreation(c)

SpecChat == InitChat /\ [][NextChat]_vars

(***************************************************************************)
(* The chat layer's entry points for Platega: pay_platega_flow             *)
(* (platega_service.py) and pay_platega_callback_handler (payments.py).    *)
(***************************************************************************)
PayPlatega == <<"p","a","y","_","p","l","a","t","e","g","a">>

\* what follows the prefix and its colon in a callback's data
Payloads ==
    {<<"1", ":", "9">>, <<"2", ":", "9">>, <<"1">>, <<>>,
     <<"a", ":", "9">>, <<"1", ":", "a">>, <<"sup2", ":", "9">>,
     <<"1", ":", "9", ":", "1">>}
CallbackData(prefix) == {prefix \o <<":">> \o p : p \in Payloads}

\* payments.py lines 27-32, and the same steps at platega_service.py lines
\* 627-629: exactly two parts, int() of the first and float() of the second
ParseMonthsAndPrice(payload) ==
    LET parts == Split(payload, ":")
    IN IF Len(parts) = 2 /\ IntParses(parts[1]) /\ ~FloatRaises(parts[2])
       THEN [ok |-> TRUE, months |-> StrToInt(Strip(parts[1]))]
       ELSE [ok |-> FALSE, months |-> 0]

\* data.split(":", 1)[1] and the parse of it
ParseCallback(data) ==
    LET parts == SplitOnce(data, ":")
    IN IF Len(parts) < 2 THEN [ok |-> FALSE, months |-> 0]
       ELSE ParseMonthsAndPrice(parts[2])

PlategaFlowBranch_NoConfiguredCheck(message, service, data) ==
    IF ~message THEN "no_message"
    ELSE IF ~ParseCallback(data).ok THEN "bad_data"
    ELSE "create_invoice"
\* pay_platega_flow lines 610, 617, 625-630
PlategaFlowBranch(message, service, data) ==
    IF ~message THEN "no_message"
    ELSE IF ~service \/ ~configured THEN "unavailable"
    ELSE IF ~ParseCallback(data).ok THEN "bad_data"
    ELSE "create_invoice"

\* lines 611-615, 618-622, 631-635: what a refusal tells the user
PlategaFlowRefusal(branch, alerted) ==
    CASE branch = "no_message" -> {"error_occurred_try_again"}
      [] branch = "bad_data" -> {"error_try_again"}
      [] branch = "unavailable" ->
            {"payment_service_unavailable"}
            \cup (IF alerted THEN {"payment_service_unavailable_alert"}
                  ELSE {})

\* platega_service.py lines 599-648: pay_platega_flow up to its call of
\* create_invoice. The edit of line 618 stands outside any try: when Telegram
\* rejects it the flow raises; the answers of lines 612 and 633 are guarded.
PayPlategaFlow(c) ==
    /\ inv[c].pc = "idle"
    /\ inv[c].handler = "none"
    /\ \E message \in BOOLEAN, service \in BOOLEAN, u \in Users,
          data \in CallbackData(PayPlatega) \cup {PayPlatega},
          delivered \in BOOLEAN, alerted \in BOOLEAN :
        LET branch == PlategaFlowBranch(message, service, data)
            called == branch = "create_invoice"
        IN inv' = [inv EXCEPT
              ![c].handler = "pay_platega_flow",
              ![c].args = [NoArgs EXCEPT
                              !.message = message, !.service = service,
                              !.user = u, !.data = data,
                              !.months = ParseCallback(data).months],
              ![c].calls = IF called THEN 1 ELSE 0,
              ![c].pc = IF called THEN "idle" ELSE "done",
              ![c].shown = IF called THEN {}
                           ELSE Show(c, PlategaFlowRefusal(branch, alerted),
                                     delivered),
              ![c].lost = ~called /\ ~delivered,
              ![c].result = CASE called -> "running"
                              [] branch = "unavailable" /\ ~delivered
                                    -> "raised"
                              [] OTHER -> NoUrl]
    /\ UNCHANGED <<settings, payments, entitlement, activations, lock, req>>

\* the user and the months a create_invoice call is made for: any, when it is
\* called directly; the callback's, when pay_platega_flow calls it (lines
\* 641-648)
CallUsers(c) ==
    IF inv[c].handler = "none" THEN Users ELSE {inv[c].args.user}
CallMonths(c) ==
    IF inv[c].handler = "none" THEN MonthsChoice ELSE {inv[c].args.months}

CreateInvoiceCalled(c) ==
    CreateInvoiceInsertFor(c, CallUsers(c), CallMonths(c))

\* lines 650-670: the link, or error_payment_gateway; the fallback of line
\* 659 and the edit of line 665 stand outside any try
PayPlategaFlowShows(c) ==
    /\ inv[c].handler = "pay_platega_flow"
    /\ inv[c].pc = "done"
    /\ inv[c].calls = 1
    /\ inv[c].result \in {"url", NoUrl}
    /\ \E edited \in BOOLEAN, answered \in BOOLEAN :
        LET delivered == IF inv[c].result = "url" THEN edited \/ answered
                         ELSE edited
            text == IF inv[c].result = "url" THEN "payment_link_message"
                    ELSE "error_payment_gateway"
        IN inv' = [inv EXCEPT
              ![c].pc = "returned",
              ![c].shown = Show(c, {text}, delivered),
              ![c].lost = ~delivered,
              ![c].result = IF delivered THEN NoUrl ELSE "raised"]
    /\ UNCHANGED <<settings, payments, entitlement, activations, lock, req>>

\* payments.py lines 55-145. The route delivers data that starts with
\* "pay_platega:", so line 68 finds its payload; line 73 then calls
\* parse_platega_payload, a name payments.py neither defines nor imports:
\* NameError, outside any try. (get_text of line 57 is the Ellipsis object:
\* inside _platega_reply_parse_error, lines 147-160, calling it raises within
\* the try blocks and nothing is shown.)
PlategaCallbackBranch(data) ==
    IF Len(SplitOnce(data, ":")) < 2 THEN "parse_error" ELSE "name_error"

PayPlategaCallback(c) ==
    /\ inv[c].pc = "idle"
    /\ inv[c].handler = "none"
    /\ \E u \in Users, data \in CallbackData(PayPlatega) :
        LET branch == PlategaCallbackBranch(data)
        IN inv' = [inv EXCEPT
              ![c].handler = "pay_platega_callback_handler",
              ![c].args = [NoArgs EXCEPT !.user = u, !.data = data],
              ![c].pc = "done",
              ![c].result = IF branch = "name_error" THEN "raised"
                            ELSE NoUrl]
    /\ UNCHANGED <<settings, payments, entitlement, activations, lock, req>>

InitPlategaChat ==
    /\ settings \in SettingsChoice
    /\ payments = [p \in Calls |-> NoRecord]
    /\ entitlement = [u \in Users |-> 0]
    /\ activations = [p \in Calls |-> 0]
    /\ lock = 0
    /\ req = [r \in Reqs |-> IdleReq]
    /\ inv = [c \in Calls |-> IdleFlow]

NextPlategaChat ==
    \E c \in 1..MaxPlategaCallbacks :
        \/ PayPlategaFlow(c)
        \/ PayPlategaFlowShows(c)
        \/ PayPlategaCallback(c)
        \/ CreateInvoiceNotConfigured(c)
        \/ CreateInvoiceCalled(c)
        \/ CreateInvoiceInsertFails(c)
        \/ ProviderFails(c)
        \/ ProviderAnswersNonObject(c)
        \/ ProviderAnswers(c)
        \/ Link(c)
        \/ LinkFails(c)

SpecPlategaChat == InitPlategaChat /\ [][NextPlategaChat]_vars

(***************************************************************************)
(* The YooKassa callbacks that start _initiate_yk_payment:                 *)
(* pay_yk_callback_handler and pay_yk_use_saved_handler (payments.py).     *)
(***************************************************************************)
PayYk == <<"p","a","y","_","y","k">>
PayYkUseSaved ==
    <<"p","a","y","_","y","k","_","u","s","e","_","s","a","v","e","d">>

\* The saved payment methods a database may hold: method_id, owner, provider
\* and provider_payment_method_id.
AllMethods ==
    {[method_id |-> 1, user_id |-> 1, provider |-> "yookassa",
      provider_payment_method_id |-> <<"a">>],
     [method_id |-> 2, user_id |-> 2, provider |-> "yookassa",
      provider_payment_method_id |-> <<"b">>],
     [method_id |-> 3, user_id |-> 1, provider |-> "other",
      provider_payment_method_id |-> <<"c">>]}

\* user_billing_dal.list_user_payment_methods(session, user_id, provider)
list_user_payment_methods(saved, user_id, provider) ==
    {m \in saved : m.user_id = user_id /\ m.provider = provider}

\* lines 520-526, 857-863: the lookup; when it raises, no method is known
SavedMethods(args) ==
    IF args.lookup_ok
    THEN list_user_payment_methods(args.saved, args.user, "yookassa")
    ELSE {}

\* the method identifiers a pay_yk_use_saved callback may carry
Identifiers == {"1", "2", "3", "a", "b", "c", "sup2"}
UseSavedPayloads ==
    {<<"1", ":", "9", ":", i>> : i \in Identifiers}
    \cup {<<"1", ":", "9">>, <<"a", ":", "9", ":", "1">>,
          <<"1", ":", "a", ":", "1">>}

\* lines 834-852: at least three parts, int() of the first, float() of the
\* second; the third is the method identifier (line 854)
ParseUseSaved(data) ==
    LET parts == Split(SplitOnce(data, ":")[2], ":")
    IN IF Len(parts) >= 3 /\ IntParses(parts[1]) /\ ~FloatRaises(parts[2])
       THEN [ok |-> TRUE, months |-> StrToInt(Strip(parts[1])),
             method_identifier |-> parts[3]]
       ELSE [ok |-> FALSE, months |-> 0, method_identifier |-> <<>>]

\* lines 867-873: by method_id when the identifier isdigit(), or by
\* provider_payment_method_id
Selects(method, identifier) ==
    \/ IsDigit(identifier) /\ ~IntRaises(identifier)
          /\ method.method_id = StrToInt(identifier)
    \/ method.provider_payment_method_id = identifier

UseSavedBranch_NoAutopayCheck(args) ==
    LET parsed == ParseUseSaved(args.data)
        methods == SavedMethods(args)
    IN CASE ~args.message -> "no_message"
         [] ~args.service -> "unavailable"
         [] ~parsed.ok -> "bad_data"
         [] methods # {} /\ IsDigit(parsed.method_identifier)
                /\ IntRaises(parsed.method_identifier) -> "raises"
         [] \A m \in methods : ~Selects(m, parsed.method_identifier)
                -> "not_found"
         [] OTHER -> "initiate"
\* lines 797-881: the refusals of pay_yk_use_saved_handler in their order;
\* int() of line 868 stands outside any try
UseSavedBranch(args) ==
    LET parsed == ParseUseSaved(args.data)
        methods == SavedMethods(args)
    IN CASE ~args.message -> "no_message"
         [] ~args.autopay -> "autopay_disabled"
         [] ~args.service -> "unavailable"
         [] ~parsed.ok -> "bad_data"
         [] methods # {} /\ IsDigit(parsed.method_identifier)
                /\ IntRaises(parsed.method_identifier) -> "raises"
         [] \A m \in methods : ~Selects(m, parsed.method_identifier)
                -> "not_found"
         [] OTHER -> "initiate"

\* what a refusal of the two handlers tells the user (every text of
\* pay_yk_use_saved_handler is sent inside a try)
YkRefusal(branch) ==
    CASE branch = "no_message" -> {"error_occurred_try_again"}
      [] branch = "unavailable" -> {"payment_service_unavailable"}
      [] branch = "choice" -> {"yookassa_autopay_flow_prompt"}
      [] branch = "raises" -> {}
      [] OTHER -> {"error_try_again"}

HandlerArgs ==
    [message : BOOLEAN, service : BOOLEAN, autopay : BOOLEAN, user : Users,
     data : {<<>>}, months : {0}, payment_db_id : {0},
     saved : SUBSET AllMethods,
     lookup_ok : BOOLEAN]

\* lines 791-906: pay_yk_use_saved_handler up to its call of
\* _initiate_yk_payment with the selected method (lines 885-901)
PayYkUseSavedHandler(c) ==
    /\ inv[c].pc = "idle"
    /\ inv[c].handler = "none"
    /\ \E a \in HandlerArgs, p \in UseSavedPayloads, delivered \in BOOLEAN :
        LET data == PayYkUseSaved \o <<":">> \o p
            args == [a EXCEPT !.data = data,
                              !.months = ParseUseSaved(data).months]
            branch == UseSavedBranch(args)
            called == branch = "initiate"
            selected ==
                {m \in SavedMethods(args) :
                    Selects(m, ParseUseSaved(data).method_identifier)}
        IN \E m \in (IF called THEN selected ELSE {0}) :
            inv' = [inv EXCEPT
              ![c].handler = "pay_yk_use_saved_handler",
              ![c].args = args,
              ![c].calls = IF called THEN 1 ELSE 0,
              ![c].payment_method_id = called,
              ![c].method = IF called THEN m.method_id ELSE 0,
              ![c].pc = IF called THEN "idle" ELSE "done",
              ![c].shown = IF called THEN {}
                           ELSE Show(c, YkRefusal(branch), delivered),
              ![c].lost = ~called /\ ~delivered,
              ![c].result = CASE called -> "running"
                              [] branch = "raises" -> "raised"
                              [] OTHER -> NoUrl]
    /\ UNCHANGED <<settings, payments, entitlement, activations, lock, req>>

\* lines 478-559: the refusals of pay_yk_callback_handler in their order;
\* with autopayments and a saved method known, only the choice is shown
PayYkBranch(args) ==
    CASE ~args.message -> "no_message"
      [] ~args.service -> "unavailable"
      [] ~ParseCallback(args.data).ok -> "bad_data"
      [] args.autopay /\ SavedMethods(args) # {} -> "choice"
      [] OTHER -> "initiate"

\* lines 472-579: pay_yk_callback_handler up to its call of
\* _initiate_yk_payment (lines 561-575). The edit of line 488 stands outside
\* any try.
PayYkCallbackHandler(c) ==
    /\ inv[c].pc = "idle"
    /\ inv[c].handler = "none"
    /\ \E a \in HandlerArgs, p \in Payloads, delivered \in BOOLEAN :
        LET data == PayYk \o <<":">> \o p
            args == [a EXCEPT !.data = data,
                              !.months = ParseCallback(data).months]
            branch == PayYkBranch(args)
            called == branch = "initiate"
        IN inv' = [inv EXCEPT
              ![c].handler = "pay_yk_callback_handler",
              ![c].args = args,
              ![c].calls = IF called THEN 1 ELSE 0,
              ![c].pc = IF called THEN "idle" ELSE "done",
              ![c].shown = IF called THEN {}
                           ELSE Show(c, YkRefusal(branch), delivered),
              ![c].lost = ~called /\ ~delivered,
              ![c].result = CASE called -> "running"
                              [] branch = "unavailable" /\ ~delivered
                                    -> "raised"
                              [] OTHER -> NoUrl]
    /\ UNCHANGED <<settings, payments, entitlement, activations, lock, req>>

\* _initiate_yk_payment as the two handlers call it: for the callback's user
\* and months, with the selected method or none
Initiated(c) ==
    /\ inv[c].calls = 1
    /\ inv[c].handler
          \in {"pay_yk_callback_handler", "pay_yk_use_saved_handler"}

YkInsertCalled(c) ==
    /\ Initiated(c)
    /\ YkInsertFor(c, {inv[c].args.user}, {inv[c].args.months},
                   {inv[c].payment_method_id})

YkInsertCalledFails(c) == Initiated(c) /\ YkInsertFails(c)

(***************************************************************************)
(* handle_successful_stars_payment (payments.py).                          *)
(***************************************************************************)
StarsAlphabet == {"1", "2", ":", "a", " "}
StarsPayloads == UNION {[1..n -> StarsAlphabet] : n \in 0..MaxPayloadLen}

ParseStarsPayload_IgnoresRest(payload) ==
    LET parts == Split(payload, ":")
    IN IF Len(parts) >= 2 /\ IntParses(parts[1]) /\ IntParses(parts[2])
       THEN [ok |-> TRUE, payment_db_id |-> StrToInt(Strip(parts[1])),
             months |-> StrToInt(Strip(parts[2]))]
       ELSE [ok |-> FALSE, payment_db_id |-> 0, months |-> 0]
\* lines 1276-1281: split(":", 1) into exactly two parts and int() of both;
\* any exception ends the handler
ParseStarsPayload(payload) ==
    LET parts == SplitOnce(payload, ":")
    IN IF Len(parts) = 2 /\ IntParses(parts[1]) /\ IntParses(parts[2])
       THEN [ok |-> TRUE, payment_db_id |-> StrToInt(Strip(parts[1])),
             months |-> StrToInt(Strip(parts[2]))]
       ELSE [ok |-> FALSE, payment_db_id |-> 0, months |-> 0]

\* lines 1266-1291; process_successful_payment is awaited outside any try
HandleSuccessfulStarsPayment(c) ==
    /\ inv[c].pc = "idle"
    /\ inv[c].handler = "none"
    /\ \E payload \in StarsPayloads, raises \in BOOLEAN :
        LET parsed == ParseStarsPayload(payload)
        IN inv' = [inv EXCEPT
              ![c].handler = "handle_successful_stars_payment",
              ![c].args = [NoArgs EXCEPT
                              !.data = payload,
                              !.months = parsed.months,
                              !.payment_db_id = parsed.payment_db_id],
              ![c].calls = IF parsed.ok THEN 1 ELSE 0,
              ![c].pc = "done",
              ![c].result = IF parsed.ok /\ raises THEN "raised"
                            ELSE NoUrl]
    /\ UNCHANGED <<settings, payments, entitlement, activations, lock, req>>

(***************************************************************************)
(* ProfileSyncMiddleware.__call__ (bot/middlewares/profile_sync.py).       *)
(***************************************************************************)
\* username, first_name, last_name: stored, and sanitized from the update
Profiles == [1..3 -> {<<>>, <<"x">>}]
StoredProfiles == {[i \in 1..3 |-> <<"x">>], [i \in 1..3 |-> <<>>]}

\* lines 34-40: the fields that differ
update_payload(db, tg) == {i \in 1..3 : db[i] # tg[i]}

\* lines 55-61: the description is the non-empty names
HasDescription(tg) == \E i \in 1..3 : tg[i] # <<>>

HandlerCalls_NoneAfterFailure(sync_failed) == IF sync_failed THEN 0 ELSE 1
\* line 80: the wrapped handler is awaited after the try of lines 25-78,
\* whatever happened inside it
HandlerCalls(sync_failed) == 1

\* lines 15-80
ProfileSync(c) ==
    /\ inv[c].pc = "idle"
    /\ inv[c].handler = "none"
    /\ \E session \in BOOLEAN, tg_user \in BOOLEAN,
          lookup \in {"raises", "missing", "found"},
          db \in StoredProfiles, tg \in Profiles,
          update_ok \in BOOLEAN, panel_linked \in BOOLEAN,
          panel_ok \in BOOLEAN, handler \in {"returns", "raises"} :
        LET synced == session /\ tg_user
            updating == synced /\ lookup = "found"
                          /\ update_payload(db, tg) # {}
            db_updated == updating /\ update_ok
            panel_called == db_updated /\ panel_linked /\ HasDescription(tg)
            sync_failed ==
                \/ synced /\ lookup = "raises"
                \/ updating /\ ~update_ok
                \/ panel_called /\ ~panel_ok
            calls == HandlerCalls(sync_failed)
        IN inv' = [inv EXCEPT
              ![c].handler = "ProfileSyncMiddleware",
              ![c].sync = [session |-> session, tg_user |-> tg_user,
                           lookup |-> lookup, db |-> db, tg |-> tg,
                           update_ok |-> update_ok,
                           panel_linked |-> panel_linked,
                           panel_ok |-> panel_ok, handler |-> handler,
                           db_updated |-> db_updated,
                           panel_updated |-> panel_called /\ panel_ok],
              ![c].calls = calls,
              ![c].pc = "done",
              ![c].result = CASE calls = 0 -> NoUrl
                              [] handler = "raises" -> "raised"
                              [] OTHER -> "handler_result"]
    /\ UNCHANGED <<settings, payments, entitlement, activations, lock, req>>

(***************************************************************************)
(* safe_answer_callback, safe_edit_message_text and safe_send_message      *)
(* (bot/utils/callback_helpers.py).                                        *)
(***************************************************************************)
SafeHelpers ==
    {"safe_answer_callback", "safe_edit_message_text", "safe_send_message"}

SafeResult_Propagates(target, telegram) ==
    CASE ~target -> "False"
      [] telegram = "completes" -> "True"
      [] OTHER -> "raised"
\* lines 33-44, 52-60, 68-76: False without a callback or message; True
\* after the awaited call; False from `except Exception`
SafeResult(target, telegram) ==
    CASE ~target -> "False"
      [] telegram = "completes" -> "True"
      [] OTHER -> "False"

\* lines 28-76: one call of one of the three helpers, with or without its
\* callback or message, Telegram accepting or rejecting the call
SafeTelegramCall(c) ==
    /\ inv[c].pc = "idle"
    /\ inv[c].handler = "none"
    /\ \E helper \in SafeHelpers, target \in BOOLEAN,
          telegram \in {"completes", "raises"} :
        inv' = [inv EXCEPT
          ![c].handler = helper,
          ![c].args = [NoArgs EXCEPT !.message = target],
          ![c].calls = IF target THEN 1 ELSE 0,
          ![c].provider = IF target THEN telegram ELSE "not_called",
          ![c].pc = "done",
          ![c].result = SafeResult(target, telegram)]
    /\ UNCHANGED <<settings, payments, entitlement, activations, lock, req>>

InitHandlers == InitChat

NextHandlers ==
    \E c \in 1..MaxUpdates :
        \/ PayYkCallbackHandler(c)
        \/ PayYkUseSavedHandler(c)
        \/ HandleSuccessfulStarsPayment(c)
        \/ ProfileSync(c)
        \/ SafeTelegramCall(c)
        \/ YkInsertCalled(c)
        \/ YkInsertCalledFails(c)
        \/ YkCreatePayment(c)
        \/ YkLink(c)
        \/ YkLinkFails(c)
        \/ YkSavedCard(c)
        \/ YkFailedCreation(c)

SpecHandlers == InitHandlers /\ [][NextHandlers]_vars

(***************************************************************************)
(* Properties.                                                             *)
(***************************************************************************)
\* the request is between acquiring payment_processing_lock and leaving it
InCriticalSection(r) ==
    req[r].pc \in {"locked", "write", "activate", "referral", "notify",
                   "commit", "rollback", "release"}
\* the step is one of request r
StepOf(r) == req'[r] # req[r]
LedgerUnchanged == UNCHANGED <<payments, entitlement, activations>>

\* C1: however many CONFIRMED events are delivered for one provider
\* transaction id, the activation of its PaymentRecord is committed at most
\* once.
C1_ActivatedOnce == \A p \in Calls : activations[p] <= 1

\* C2: once the committed status of a PaymentRecord is terminal, no step
\* changes it.
C2_TerminalIsFinal ==
    [][\A p \in Calls :
          payments[p].status \in Terminal
              => payments'[p].status = payments[p].status]_vars

\* C3: at most one request is between acquiring payment_processing_lock and
\* leaving it, and that request is the holder of the lock.
C3_OneAtATime ==
    /\ \A r, q \in Reqs : InCriticalSection(r) /\ InCriticalSection(q) => r = q
    /\ \A r \in Reqs : InCriticalSection(r) => lock = r
C3_Witness ==
    \E r, q \in Reqs :
        /\ req[r].pc = "activate"
        /\ req[q].pc = "waitlock"
        /\ Tx(r) = Tx(q)

\* C4: when activate_subscription or the referral step has failed for a
\* CONFIRMED event on a pending record, the Ledger shows, until the handler
\* returns, the record still pending and neither activation nor entitlement
\* beyond what the lookup saw.
C4_FailedActivationRollsBack ==
    \A r \in Reqs :
        req[r].raised \in {"activation", "referral"}
        /\ req[r].seen.status = pending
        => /\ payments[req[r].rec].status = pending
           /\ activations[req[r].rec] = req[r].seen.activations
           /\ entitlement[payments[req[r].rec].user_id]
                = req[r].seen.entitlement
C4_Witness ==
    \E r \in Reqs :
        /\ req[r].pc = "release"
        /\ req[r].raised = "referral"
        /\ req[r].seen.status = pending
        /\ req[r].status = STATUS_CONFIRMED

FailureStatuses == {STATUS_CANCELED, STATUS_FAILED, STATUS_EXPIRED}
\* the step is the commit of request r's session
CommitOf(r) == req[r].pc = "commit" /\ req'[r].pc = "release"
\* the status write of request r was made in its session
StatusWritten(r) == req[r].rec # 0 /\ req[r].wrote # <<>>

\* C5: the commit of a CONFIRMED event, with no collaborator failure, for a
\* pending record that create_invoice linked and returned a URL for, leaves
\* the record succeeded and its user's entitlement extended by the record's
\* months, and the response is 200.
C5_RoundTrip ==
    [][\A r \in Reqs :
          CommitOf(r) /\ StatusWritten(r) /\ req[r].activated
          /\ req[r].status = STATUS_CONFIRMED
          /\ req[r].seen.status = pending
          /\ inv[req[r].rec].result = "url"
          => /\ payments'[req[r].rec].status = succeeded
             /\ entitlement'[payments[req[r].rec].user_id]
                  = entitlement[payments[req[r].rec].user_id]
                    + payments[req[r].rec].months
             /\ req'[r].resp = 200]_vars

\* the terminal status section 4.2 (step 6) matches to a canonical status
MatchingStatus(status) == Lower(status)
\* C6: the commit of a CANCELED, FAILED or EXPIRED event for a pending record
\* leaves the record canceled, failed or expired respectively.
C6_MatchingTerminalStatus ==
    [][\A r \in Reqs :
          CommitOf(r) /\ StatusWritten(r)
          /\ req[r].status \in FailureStatuses
          /\ req[r].seen.status = pending
          => payments'[req[r].rec].status = MatchingStatus(req[r].status)]_vars

\* C7: no step of a request whose canonical status is CANCELED, FAILED or
\* EXPIRED invokes the activator or changes any entitlement.
C7_FailureEventsNeverActivate ==
    [][\A r \in Reqs :
          req[r].status \in FailureStatuses /\ StepOf(r)
          => /\ ~req'[r].activated
             /\ entitlement' = entitlement
             /\ activations' = activations]_vars
C7_Witness ==
    \E r \in Reqs :
        /\ req[r].pc = "release"
        /\ req[r].status = STATUS_EXPIRED
        /\ req[r].seen.status = succeeded
        /\ payments[req[r].rec].status = canceled
        /\ entitlement[payments[req[r].rec].user_id] > 0

\* C8: a CONFIRMED, CANCELED, FAILED or EXPIRED event whose id matches no
\* PaymentRecord finds none, writes nothing in its session, leaves the Ledger
\* and the entitlements as they are, and is answered 200.
NoMatch(tx) ==
    \A p \in Calls :
        ~(payments[p].exists /\ payments[p].provider_payment_id = tx)
Processed(r) == req[r].status \in FailureStatuses \cup {STATUS_CONFIRMED}
Unmatched(r) ==
    /\ Processed(r)
    /\ req[r].pc \notin {"waitlock", "locked"}
    /\ req[r].rec = 0
C8_UnknownTransaction ==
    [][\A r \in Reqs :
          /\ Processed(r) /\ req[r].pc = "locked" /\ NoMatch(Tx(r)) /\ StepOf(r)
             => req'[r].rec = 0 /\ LedgerUnchanged
          /\ Unmatched(r) /\ StepOf(r)
             => /\ LedgerUnchanged
                /\ req'[r].wrote = <<>>
                /\ ~req'[r].activated
                /\ req'[r].pc \in {"commit", "rollback"} \/ req'[r].resp = 200
       ]_vars
C8_Witness ==
    \E r \in Reqs :
        /\ req[r].pc = "release"
        /\ req[r].status = STATUS_CONFIRMED
        /\ req[r].rec = 0
        /\ req[r].raised = "no"
        /\ req[r].resp = 200
        /\ \E c \in Calls : Tx(r) = TxId(c) /\ payments[c].exists

\* C9: an authenticated request whose body is no JSON, or is an object
\* without id (missing, null or empty), is answered 400 and never enters the
\* critical section.
C9_NoIdIs400 ==
    \A r \in Reqs :
        req[r].pc # "idle" /\ ~req[r].forged
        /\ req[r].shape \in {"badjson", "no_id"}
        => req[r].pc = "done" /\ req[r].resp = 400 /\ ~req[r].entered

\* C10: a request with missing or wrong credentials, or arriving when none
\* are configured, is answered 401 whatever its body is, and never enters the
\* critical section.
C10_ForgedIs401 ==
    \A r \in Reqs :
        req[r].pc # "idle" /\ req[r].forged
        => req[r].pc = "done" /\ req[r].resp = 401 /\ ~req[r].entered
C10_Witness ==
    \E r \in Reqs :
        /\ req[r].forged
        /\ req[r].shape = "badjson"
        /\ req[r].resp = 401
        /\ ~Falsy(settings.merchant_id) /\ ~Falsy(settings.secret)

\* a notification of request r has raised
NotificationFailed(q) == q.sent \in {"failed", "note_failed"}

C12_NotifyOutsideLock ==
    \A r \in Reqs : req[r].sent # "no" => lock # r

\* the provider's call of create_invoice c did not yield a transaction: it
\* raised, or the answer was unusable
ProviderFailed(c) == inv[c].provider \in ProviderFailures \cup {"non_object"}
\* create_invoice c has ended and had inserted its record
Ended(c) == inv[c].pc = "done" /\ payments[c].exists

\* C13: a create_invoice whose provider call raised or gave an unusable
\* answer, and whose Ledger writes all went through, returns None and leaves
\* its record failed_creation.
C13_ProviderFailureMarksRecord ==
    \A c \in Calls :
        Ended(c) /\ ProviderFailed(c) /\ ~inv[c].db_failed
        => inv[c].result = NoUrl /\ payments[c].status = failed_creation

\* C14: a create_invoice in which a Ledger write after the insert failed
\* returns None and leaves its record failed_creation.
C14_DatabaseFailureMarksRecord ==
    \A c \in Calls :
        Ended(c) /\ inv[c].db_failed
        => inv[c].result = NoUrl /\ payments[c].status = failed_creation

\* C15: a provider_payment_id, once set, is never changed by any step, and
\* no two records carry the same one.
C15_ProviderIdWriteOnce ==
    [][/\ \A p \in Calls :
            payments[p].provider_payment_id # <<>>
            => payments'[p].provider_payment_id = payments[p].provider_payment_id
       /\ \A p, q \in Calls :
            /\ payments'[p].provider_payment_id # <<>>
            /\ payments'[p].provider_payment_id = payments'[q].provider_payment_id
            => p = q]_vars
C15_Witness ==
    /\ \A p \in 1..MaxLedgerInvoices :
          payments[p].provider_payment_id = TxId(p)
    /\ \E r \in Reqs :
          /\ req[r].pc = "release"
          /\ req[r].rec = MaxLedgerInvoices
          /\ req[r].wrote = succeeded
          /\ payments[req[r].rec].status = succeeded

\* the result the specification (section 4.1) gives for a raw status: the
\* name of a known code, else the trimmed, uppercased text
CodeOf(digits) == StrToInt(digits)
KnownCodeStrings == {IntToStr(c) : c \in DOMAIN PLATEGA_STATUS_CODE_MAP}
ClaimedStatus(raw) ==
    IF raw.t = "int"
    THEN IF raw.n \in DOMAIN PLATEGA_STATUS_CODE_MAP
         THEN PLATEGA_STATUS_CODE_MAP[raw.n]
         ELSE IntToStr(raw.n)
    ELSE IF raw.t = "str"
    THEN IF Strip(raw.v) \in KnownCodeStrings
         THEN PLATEGA_STATUS_CODE_MAP[CodeOf(Strip(raw.v))]
         ELSE Upper(Strip(raw.v))
    ELSE Upper(StrOf(raw))

\* C16: _normalize_platega_status raises for no raw status and returns the
\* name of the code for the integers 1, 7, 8, 9, 10 and for the strings that
\* trim to those digits, the digits for any other integer or digit string,
\* the trimmed uppercased string for any other string, and the uppercased
\* string form for any other value.
C16_NormalizeIsTotal ==
    \A r \in Reqs :
        req[r].pc = "normalized"
        => /\ req[r].raised = "no"
           /\ req[r].status = ClaimedStatus(req[r].raw)

\* C17: whatever raw status the route normalized to CONFIRMED, the status
\* written for a pending record is succeeded, and the commit that carries the
\* activation leaves the record succeeded.
C17_RawEncodingIrrelevant ==
    [][\A r \in Reqs :
          req[r].status = STATUS_CONFIRMED /\ req[r].seen.status = pending
          => /\ req[r].pc = "write" /\ req'[r].wrote # <<>>
                => req'[r].wrote = succeeded
             /\ CommitOf(r) /\ StatusWritten(r) /\ req[r].activated
                => payments'[req[r].rec].status = succeeded
       ]_vars

\* C18: every response of the route is 200, 400 or 401, and a request
\* answered 400 or 401 never entered the critical section, where the Ledger
\* is written.
C18_ResponseStatuses ==
    \A r \in Reqs :
        /\ req[r].resp \in {0, 200, 400, 401}
        /\ req[r].resp \in {400, 401} => ~req[r].entered

\* C19: a request for a CONFIRMED or failure event that found its record
\* pending is answered 200 only when the record's transition is committed.
C19_AcknowledgedMeansCommitted ==
    \A r \in Reqs :
        /\ req[r].pc = "release"
        /\ Processed(r)
        /\ req[r].rec # 0
        /\ req[r].seen.status = pending
        /\ req[r].resp = 200
        => payments[req[r].rec].status # pending

\* C20: the step that ends a create_invoice call leaves its record pending
\* or failed_creation, whatever "status" the provider's answer carried.
C20_CreationWritesNoProviderStatus ==
    [][\A c \in Calls :
          inv[c].pc # "done" /\ inv'[c].pc = "done" /\ payments'[c].exists
          => payments'[c].status \in {pending, failed_creation}]_vars

(***************************************************************************)
(* The chat layer's flows.                                                 *)
(***************************************************************************)
\* C21: every PaymentRecord an invoice-creation path inserts is created with
\* status exactly pending.
C21_CreatedPending ==
    [][\A c \in Calls :
        (~payments[c].exists /\ payments'[c].exists)
            => payments'[c].status = pending]_vars

\* the provider failed or gave no payment link (YooKassa: a new card pays)
NoPaymentLink(c) ==
    \/ /\ inv[c].flow = "yk"
       /\ ~inv[c].payment_method_id
       /\ inv[c].provider \in {"nothing", "no_confirmation_url"}
    \/ /\ inv[c].flow = "fk"
       /\ inv[c].provider \in {"failed", "no_location"}

EventRecord(r) == get_payment_by_provider_payment_id(Tx(r))

\* r holds the lock for an event that reads CONFIRMED and names a pending
\* record
ConfirmedPending(r) ==
    /\ Processor(r) = "confirmed"
    /\ ConfirmedNewStatus(req[r].raw) = succeeded
    /\ EventRecord(r) # 0
    /\ payments[EventRecord(r)].status = pending

\* C22: confirmation does not depend on the event's amount or currency: for
\* a pending record and an authenticated CONFIRMED event, whatever amount the
\* event carries, the processor goes on to the record (it stops only when
\* the lookup itself fails), and the commit of its transition leaves the
\* record succeeded and the entitlement extended by the record's months.
C22_AmountIrrelevant ==
    [][\A r \in Reqs :
        /\ (req[r].pc = "locked" /\ ConfirmedPending(r)
                /\ req'[r].pc # "locked")
            => (req'[r].pc = "write" \/ req'[r].raised = "lookup")
        /\ (req[r].pc = "commit" /\ ConfirmedPending(r)
                /\ req[r].wrote # <<>> /\ req'[r].pc = "release")
            => LET p == req[r].rec
               IN /\ payments'[p].status = succeeded
                  /\ activations'[p] = activations[p] + 1
                  /\ entitlement'[payments[p].user_id] =
                        entitlement[payments[p].user_id] + MonthsOf(p)]_vars

(***************************************************************************)
(* Events for records that are already settled.                            *)
(***************************************************************************)
\* C23: an event for a PaymentRecord that is already in a terminal status
\* is acknowledged with 200 and nothing further is done: no Ledger write, no
\* activator call, no notification.
C23_TerminalRecordUntouched ==
    \A r \in Reqs :
        (req[r].rec # 0 /\ req[r].seen.status \in Terminal) =>
            /\ req[r].wrote = <<>>
            /\ ~req[r].activated
            /\ req[r].sent = "no"
            /\ req[r].resp \in {0, 200}

(***************************************************************************)
(* The lock, with requests that may be cancelled.                          *)
(***************************************************************************)
Left(r) == req[r].pc \in {"done", "cancelled"}

\* C24: payment_processing_lock is released on every exit path of the route
\* (normal return, processing exception, cancellation), so every request
\* that waits for the lock eventually holds it, and every request eventually
\* leaves the route, with its response unless it was cancelled.
C24_LockReleasedOnEveryExit ==
    /\ [](\A r \in Reqs : Left(r) => lock # r)
    /\ \A r \in Reqs :
        (req[r].pc = "waitlock") ~> (lock = r \/ req[r].pc = "cancelled")
    /\ \A r \in Reqs :
        (req[r].pc # "idle") ~>
            (req[r].pc = "cancelled" \/ (req[r].pc = "done" /\ req[r].resp # 0))

\* a request holds the lock that another, cancelled inside the critical
\* section, has left
C24_Witness ==
    /\ req[1].pc = "cancelled"
    /\ req[1].entered
    /\ req[2].entered
    /\ lock = 2

\* C25: a request cancelled after it took the lock leaves its transition
\* either fully committed or fully rolled back: whenever the lock is free,
\* no record shows the succeeded status without its activation or an
\* activation without the succeeded status.
C25_TransitionIsAtomic ==
    lock = 0 =>
        \A p \in Calls :
            payments[p].exists =>
                (payments[p].status = succeeded <=> activations[p] > 0)

(***************************************************************************)
(* What a commit makes durable.                                            *)
(***************************************************************************)
\* C29: activation is never committed without the succeeded status: a commit
\* that makes an entitlement extension durable for an event that reads
\* CONFIRMED leaves the record succeeded, also when the status write of
\* _process_platega_confirmed has failed.
C29_ActivationOnlyWithSucceeded ==
    [][\A r \in Reqs :
        (req[r].pc = "commit" /\ req'[r].pc = "release" /\ req[r].activated
            /\ ConfirmedNewStatus(req[r].raw) = succeeded)
        => payments'[req[r].rec].status = succeeded]_vars

(***************************************************************************)
(* Statuses the route has no processor for.                                *)
(***************************************************************************)
\* C26: an authenticated webhook whose status is none of CONFIRMED,
\* CANCELED, FAILED and EXPIRED (PENDING, an unknown code or string, no
\* status) never raises out of the handler: it is answered 200 and leaves
\* the Ledger and the entitlements unchanged.  The four statuses apart, an
\* authenticated event with an id is never refused at admission, and every
\* step of a request that no processor takes leaves the Ledger alone and
\* ends in the response 200.
C26_OtherStatusIsAcknowledged ==
    [][\A r \in Reqs :
        /\ (req[r].pc = "idle" /\ req'[r].pc = "done"
                /\ ~req'[r].forged /\ req'[r].shape = "event")
            => (req'[r].resp = 200 /\ req'[r].raised = "no")
        /\ (StepOf(r) /\ req[r].pc # "idle" /\ req[r].status # <<>>
                /\ Processor(r) = "other")
            => /\ LedgerUnchanged
               /\ req'[r].raised = "no"
               /\ req'[r].resp \in {0, 200}
               /\ req'[r].pc = "done" => req'[r].resp = 200]_vars

(***************************************************************************)
(* The log.                                                                *)
(***************************************************************************)
\* C27: every authenticated, well-formed event whose transaction id matches
\* no PaymentRecord produces a log entry at error level that names the
\* transaction id, whichever status the event carries.
C27_UnknownTransactionLogged ==
    \A r \in Reqs :
        (req[r].pc = "release" /\ req[r].raised = "no" /\ req[r].rec = 0
            /\ NoMatch(Tx(r)))
        => req[r].log = [level |-> "error", tx |-> Tx(r)]

(***************************************************************************)
(* Invoice creation beside the webhook.                                    *)
(***************************************************************************)
\* C30: a CONFIRMED webhook for a transaction id the provider has issued
\* always finds its PaymentRecord, also between the provider's answer and
\* the commit of the linkage: no such event is acknowledged while its record
\* was not found.
C30_IssuedTransactionIsFound ==
    \A r \in Reqs :
        (req[r].pc = "release" /\ Processor(r) = "confirmed"
            /\ req[r].raised = "no"
            /\ \E c \in Calls : Issued(c) /\ Tx(r) = TxId(c))
        => req[r].rec # 0

(***************************************************************************)
(* The order of create_invoice's steps.                                    *)
(***************************************************************************)
\* C31: create_invoice calls the provider only after the pending record is
\* committed: a call that has reached the provider has its record, and a call
\* whose insert failed ends with None, no record, and no provider call.
C31_ProviderCallAfterInsert ==
    \A c \in Calls :
        /\ (inv[c].pc \in {"posting", "linking"} \/ inv[c].provider # "none")
            => payments[c].exists
        /\ (inv[c].pc = "done" /\ ~payments[c].exists)
            => (inv[c].result = NoUrl /\ inv[c].provider = "none")

\* a configured service whose insert failed
C31_Witness ==
    /\ configured
    /\ inv[1].pc = "done"
    /\ ~payments[1].exists
    /\ inv[1].result = NoUrl

(***************************************************************************)
(* A Platega service that is not configured.                               *)
(***************************************************************************)
\* C32: while the service is disabled or lacks merchant id or secret,
\* create_invoice returns None with no PaymentRecord inserted and no call to
\* the provider, and pay_platega_flow (given a message to edit) shows
\* payment_service_unavailable and never calls create_invoice.
C32_NotConfiguredDoesNothing ==
    \A c \in Calls :
        ~configured =>
            /\ ~payments[c].exists
            /\ inv[c].provider = "not_called"
            /\ inv[c].pc \in {"idle", "done"}
            /\ (inv[c].handler = "none" /\ inv[c].pc = "done")
                => inv[c].result = NoUrl
            /\ inv[c].handler = "pay_platega_flow"
                => /\ inv[c].calls = 0
                   /\ inv[c].pc = "done"
                   /\ (inv[c].args.message /\ ~inv[c].lost)
                       => "payment_service_unavailable" \in inv[c].shown

C32_Witness ==
    /\ settings.enabled
    /\ ~configured
    /\ inv[1].handler = "pay_platega_flow"
    /\ inv[1].args.service
    /\ ParseCallback(inv[1].args.data).ok
    /\ "payment_service_unavailable" \in inv[1].shown
    /\ inv[1].calls = 0

(***************************************************************************)
(* pay_platega_callback_handler.                                           *)
(***************************************************************************)
\* C36: for every well-formed callback pay_platega:<months>:<price> the
\* handler calls create_invoice exactly once and then shows the payment link
\* or the gateway-error message; for malformed data it calls create_invoice
\* zero times; and it never ends with an unhandled error.
C36_PlategaCallbackCreatesInvoice ==
    \A c \in Calls :
        (inv[c].handler = "pay_platega_callback_handler"
            /\ inv[c].pc \in {"done", "returned"})
        => /\ inv[c].result # "raised"
           /\ ParseCallback(inv[c].args.data).ok
               => /\ inv[c].calls = 1
                  /\ ~inv[c].lost
                      => inv[c].shown \cap {"payment_link_message",
                                            "error_payment_gateway"} # {}
           /\ ~ParseCallback(inv[c].args.data).ok => inv[c].calls = 0

(***************************************************************************)
(* _initiate_yk_payment.                                                   *)
(***************************************************************************)
\* C33: _initiate_yk_payment returns True only with the provider's payment
\* id and status committed to the PaymentRecord; when that write fails the
\* record keeps what the insert gave it, an error is shown instead of the
\* payment link and the flow returns False; when the insert fails the flow
\* returns False and the provider was not called.
C33_TrueOnlyWhenCommitted ==
    \A c \in Calls :
        (inv[c].flow = "yk" /\ inv[c].pc = "done")
        => /\ inv[c].result = "True"
               => /\ payments[c].exists
                  /\ ~inv[c].db_failed
                  /\ payments[c].provider_payment_id = OrderId(c)
                  /\ payments[c].status = YkStoredStatus(inv[c].api_status)
           /\ (inv[c].db_failed
                 /\ YkBranch(inv[c].provider, inv[c].payment_method_id)
                        # "failed_creation")
               => /\ inv[c].result = "False"
                  /\ payments[c].status = pending_yookassa
                  /\ payments[c].provider_payment_id = <<>>
                  /\ "payment_link_message" \notin inv[c].shown
                  /\ ~inv[c].lost
                      => inv[c].shown
                            \cap {"error_payment_gateway_link_failed",
                                  "error_payment_gateway"} # {}
           /\ ~payments[c].exists
               => /\ inv[c].result = "False"
                  /\ inv[c].provider \in {"not_called", "no_message"}

C33_Witness ==
    /\ inv[1].flow = "yk" /\ inv[1].pc = "done"
    /\ inv[1].provider = "confirmation_url"
    /\ inv[1].db_failed
    /\ inv[1].shown = {"error_payment_gateway_link_failed"}
    /\ inv[1].result = "False"
    /\ inv[2].flow = "yk" /\ inv[2].pc = "done"
    /\ inv[2].result = "True"
    /\ payments[2].provider_payment_id = OrderId(2)

(***************************************************************************)
(* The YooKassa callbacks.                                                 *)
(***************************************************************************)
\* the saved YooKassa methods of the calling user
OwnMethods(c) ==
    {m \in inv[c].args.saved :
        m.user_id = inv[c].args.user /\ m.provider = "yookassa"}
\* the method the callback's identifier names
Named(c, m) ==
    LET parts == Split(inv[c].args.data, ":")
    IN /\ Len(parts) >= 4
       /\ \/ parts[4] = IntToStr(m.method_id)
          \/ parts[4] = m.provider_payment_method_id

\* C34: pay_yk_use_saved_handler starts a charge only with autopayments
\* enabled and with a method among the calling user's own saved YooKassa
\* methods that the identifier names; with any other identifier, a failed
\* lookup or autopayments disabled there is no PaymentRecord and no call to
\* the provider.
C34_OnlyOwnSavedMethod ==
    \A c \in Calls :
        inv[c].handler = "pay_yk_use_saved_handler"
        => LET allowed ==
                   /\ inv[c].args.autopay
                   /\ inv[c].args.lookup_ok
                   /\ \E m \in OwnMethods(c) : Named(c, m)
           IN /\ ~allowed
                  => /\ ~payments[c].exists
                     /\ inv[c].provider = "not_called"
                     /\ inv[c].calls = 0
              /\ (payments[c].exists \/ inv[c].provider # "not_called"
                    \/ inv[c].calls > 0)
                  => /\ inv[c].payment_method_id
                     /\ \E m \in OwnMethods(c) :
                           m.method_id = inv[c].method /\ Named(c, m)
                     /\ payments[c].exists
                           => payments[c].user_id = inv[c].args.user

C34_Witness ==
    /\ inv[1].handler = "pay_yk_use_saved_handler"
    /\ inv[1].args.saved = AllMethods
    /\ inv[1].args.user = 1
    /\ inv[1].method = 1
    /\ payments[1].exists
    /\ inv[1].provider = "no_confirmation_url"
    /\ inv[1].result = "True"

\* C35: pay_yk_callback_handler creates at most one PaymentRecord per
\* callback, and none when autopayments are enabled and the user has a saved
\* method (only the choice is shown), when the service is not configured, or
\* when the payload is malformed.
C35_AtMostOneRecord ==
    \A c \in Calls :
        inv[c].handler = "pay_yk_callback_handler"
        => /\ inv[c].calls <= 1
           /\ (inv[c].args.autopay /\ OwnMethods(c) # {})
               => /\ ~payments[c].exists
                  /\ (inv[c].pc = "done" /\ inv[c].calls = 0
                        /\ inv[c].args.message /\ inv[c].args.service
                        /\ ParseCallback(inv[c].args.data).ok
                        /\ ~inv[c].lost)
                      => inv[c].shown = {"yookassa_autopay_flow_prompt"}
           /\ ~inv[c].args.service => ~payments[c].exists
           /\ ~ParseCallback(inv[c].args.data).ok => ~payments[c].exists

(***************************************************************************)
(* handle_successful_stars_payment.                                        *)
(***************************************************************************)
\* C37: for an invoice payload <payment_db_id>:<months> of two integers the
\* handler calls process_successful_payment exactly once with these two
\* numbers; for any other payload it returns without the call and without
\* raising.
C37_StarsPayloadParsed ==
    \A c \in Calls :
        inv[c].handler = "handle_successful_stars_payment"
        => LET parts == Split(inv[c].args.data, ":")
               integers == /\ Len(parts) = 2
                           /\ IntParses(parts[1])
                           /\ IntParses(parts[2])
           IN /\ integers
                  => /\ inv[c].calls = 1
                     /\ inv[c].args.payment_db_id
                            = StrToInt(Strip(parts[1]))
                     /\ inv[c].args.months = StrToInt(Strip(parts[2]))
              /\ ~integers
                  => /\ inv[c].calls = 0
                     /\ inv[c].result = NoUrl

C37_Witness ==
    /\ inv[1].handler = "handle_successful_stars_payment"
    /\ inv[1].args.data = <<"1", "2", ":", "2">>
    /\ inv[1].calls = 1
    /\ inv[1].args.payment_db_id = 12
    /\ inv[1].args.months = 2

(***************************************************************************)
(* ProfileSyncMiddleware.                                                  *)
(***************************************************************************)
\* C38: the middleware invokes the wrapped handler exactly once and returns
\* what it returns, whether the synchronisation succeeds, is skipped, or
\* fails in the lookup, the update or the panel's update; and a failing
\* panel update leaves the profile update in the database done.
C38_HandlerAlwaysInvoked ==
    \A c \in Calls :
        inv[c].handler = "ProfileSyncMiddleware"
        => LET y == inv[c].sync
           IN /\ inv[c].calls = 1
              /\ inv[c].result = IF y.handler = "returns"
                                 THEN "handler_result" ELSE "raised"
              /\ (y.session /\ y.tg_user /\ y.lookup = "found"
                    /\ y.db # y.tg /\ y.update_ok)
                  => y.db_updated

C38_Witness ==
    /\ inv[1].handler = "ProfileSyncMiddleware"
    /\ inv[1].sync.panel_linked
    /\ ~inv[1].sync.panel_ok
    /\ inv[1].sync.db_updated
    /\ ~inv[1].sync.panel_updated
    /\ inv[1].calls = 1
    /\ inv[1].result = "handler_result"

(***************************************************************************)
(* The safe Telegram helpers.                                              *)
(***************************************************************************)
\* C39: none of the three helpers raises: each returns False without
\* attempting the Telegram call when its callback or message is missing,
\* False when the call raises, and True exactly when the call completed.
C39_SafeHelpersNeverRaise ==
    \A c \in Calls :
        inv[c].handler \in SafeHelpers
        => /\ inv[c].result \in {"True", "False"}
           /\ ~inv[c].args.message
               => inv[c].result = "False" /\ inv[c].calls = 0
           /\ inv[c].provider = "raises" => inv[c].result = "False"
           /\ inv[c].result = "True" <=> inv[c].provider = "completes"

C39_Witness ==
    /\ inv[1].handler = "safe_edit_message_text"
    /\ inv[1].args.message
    /\ inv[1].calls = 1
    /\ inv[1].provider = "raises"
    /\ inv[1].result = "False"

====
